---- MODULE Spec2Model ----
(***************************************************************************)
(* Model of the mining-sim simulation engine: the chain store              *)
(* (src/src/blockchain.rs), the simulation builder and the round driver    *)
(* (src/src/simulation.rs).                                                *)
(*                                                                         *)
(* Option<T> is modelled as a sequence of length at most one: None is      *)
(* <<>> and Some(x) is <<x>>.  A Vec is a sequence; Vec index h of the     *)
(* source is sequence index h + 1 here.                                    *)
(***************************************************************************)
EXTENDS Integers, Sequences, FiniteSets, TLC

\* Largest block id a caller of publish hands in (ids range over 0..MaxBlockId).
MaxBlockId == 3

\* Largest number of add_miner calls made on a builder.
MaxMiners == 2
\* Largest value handed to SimulationBuilder::rounds, so also the most rounds of a run.
MaxRounds == 2
\* Largest value handed to SimulationBuilder::repeat_all.
MaxRepeats == 2

None == <<>>
Some(x) == <<x>>
IsSome(o) == Len(o) = 1
Unwrap(o) == o[1]
\* The element of a set of one element.  The({F(x) : x \in {v}}) is F applied
\* to the value of v, as in `let x = v; F(x)`.
The(S) == CHOOSE x \in S : TRUE

\* Option::unwrap_or
unwrap_or(o, d) == IF IsSome(o) THEN Unwrap(o) ELSE d

BlockIds == 0..MaxBlockId
OptBlockIds == {None} \cup {Some(i) : i \in BlockIds}

VARIABLES
    chain,      \* the Blockchain: max_height, blocks, blocks_by_height
    order,      \* history: ids in the order publish accepted them (genesis first)
    last,       \* history: the last publish call, its argument and its result
    anc,        \* the live Ancestors iterator, if any, and what it has yielded
    call,       \* a call of a function on given arguments, and its result once made
    pc,         \* where the program using the builder and the driver stands
    builder,    \* the SimulationBuilder
    req,        \* history: the last value handed to rounds() and to repeat_all()
    group,      \* what build() returned: a SimulationGroup or an error
    sim,        \* the Simulation being run: miners, rounds, blocks_by_miner
    round,      \* the (round, proposer) pair the driver's iterator produced last
    idx,        \* position of the inner loop: the next strategy to poll
    poll,       \* history: the last get_action call and what the driver did with it
    round_pub,  \* history: ids the driver published so far in the current round
    offers,     \* history: block ids offered to strategies so far in the run
    calls,      \* history: the get_action calls of the current round, in order
    outcome,    \* what run() returned, once it has returned
    par,        \* run_all: the group, the simulations made of it, their runs
    run         \* a run of built-in strategies, and its last get_action call

chainVars == <<chain, order>>
callerVars == <<last, anc, call>>
buildVars == <<builder, req, group>>
runVars == <<sim, round, idx, poll, round_pub, offers, calls, outcome>>
parVars == <<par, run>>

vars == <<chain, order, last, anc, call, pc, builder, req, group, sim, round, idx, poll,
          round_pub, offers, calls, outcome, par, run>>

----------------------------------------------------------------------------
(* Blockchain *)

GENESIS_ID == 0
GENESIS_MINER == 0

Block(id, parent_id, miner_id) ==
    [id |-> id, parent_id |-> parent_id, miner_id |-> miner_id]

\* Blockchain::new
BlockchainNew ==
    [max_height |-> 0,
     blocks |-> (GENESIS_ID :> [block |-> Block(GENESIS_ID, None, GENESIS_MINER),
                                height |-> 0,
                                children |-> <<>>]),
     blocks_by_height |-> << <<GENESIS_ID>> >>]

\* Blockchain::contains
Contains(c, id) == id \in DOMAIN c.blocks

\* Blockchain::at_height: Some(slice) or None
at_height(c, h) ==
    IF h + 1 \in DOMAIN c.blocks_by_height THEN Some(c.blocks_by_height[h + 1]) ELSE None

\* Blockchain::get_parent
get_parent(c, id) ==
    IF id \in DOMAIN c.blocks THEN c.blocks[id].block.parent_id ELSE None

\* Blockchain::max_height
max_height(c) == c.max_height

\* Blockchain::num_blocks
num_blocks(c) == Cardinality(DOMAIN c.blocks)

\* Blockchain::tip: blocks_by_height.last().unwrap()
tip(c) == c.blocks_by_height[Len(c.blocks_by_height)]

\* The ids of chain c height by height: an order in which c can have been built
RECURSIVE IdsByHeight(_, _)
IdsByHeight(c, h) ==
    IF h > c.max_height THEN <<>> ELSE c.blocks_by_height[h + 1] \o IdsByHeight(c, h + 1)

\* HashMap::insert: the entry for key k is created or replaced
MapInsert(m, k, v) == [x \in DOMAIN m \cup {k} |-> IF x = k THEN v ELSE m[x]]

\* InsertBlock with the new-height test off by one (>= for >)
InsertBlock_ge(c, block, parent_id) ==
    LET pd == c.blocks[parent_id]
        withChild == [c.blocks EXCEPT ![parent_id].children = Append(@, block.id)]
        height == pd.height + 1
        byHeight == IF height >= c.max_height
                    THEN Append(c.blocks_by_height, <<block.id>>)
                    ELSE [c.blocks_by_height EXCEPT ![height + 1] = Append(@, block.id)]
        maxH == IF height >= c.max_height THEN height ELSE c.max_height
    IN [max_height |-> maxH,
        blocks |-> MapInsert(withChild, block.id,
                             [block |-> block, height |-> height, children |-> <<>>]),
        blocks_by_height |-> byHeight]

\* The successful tail of publish (lines 170-186): push the child, place the id
\* in the per-height lists, insert the block.
InsertBlock(c, block, parent_id) ==
    LET pd == c.blocks[parent_id]
        withChild == [c.blocks EXCEPT ![parent_id].children = Append(@, block.id)]
        height == pd.height + 1
        byHeight == IF height > c.max_height
                    THEN Append(c.blocks_by_height, <<block.id>>)
                    ELSE [c.blocks_by_height EXCEPT ![height + 1] = Append(@, block.id)]
        maxH == IF height > c.max_height THEN height ELSE c.max_height
    IN [max_height |-> maxH,
        blocks |-> MapInsert(withChild, block.id,
                             [block |-> block, height |-> height, children |-> <<>>]),
        blocks_by_height |-> byHeight]

\* publish with the parent-option check made before the duplicate check
publish_parent_first(c, block) ==
    IF ~IsSome(block.parent_id)
    THEN [res |-> "NoParentGiven", chain |-> c]
    ELSE IF Contains(c, block.id)
    THEN [res |-> "DuplicateBlockID", chain |-> c]
    ELSE IF Unwrap(block.parent_id) \notin DOMAIN c.blocks
    THEN [res |-> "ParentNotFound", chain |-> c]
    ELSE IF block.id <= c.blocks[Unwrap(block.parent_id)].block.id
    THEN [res |-> "InvalidParent", chain |-> c]
    ELSE [res |-> "Ok", chain |-> InsertBlock(c, block, Unwrap(block.parent_id))]

\* publish without the id-greater-than-parent check
publish_no_order_check(c, block) ==
    IF Contains(c, block.id)
    THEN [res |-> "DuplicateBlockID", chain |-> c]
    ELSE IF ~IsSome(block.parent_id)
    THEN [res |-> "NoParentGiven", chain |-> c]
    ELSE IF Unwrap(block.parent_id) \notin DOMAIN c.blocks
    THEN [res |-> "ParentNotFound", chain |-> c]
    ELSE [res |-> "Ok", chain |-> InsertBlock(c, block, Unwrap(block.parent_id))]

\* publish pushing the child id on its parent before the check of the ids
publish_push_first(c, block) ==
    IF Contains(c, block.id)
    THEN [res |-> "DuplicateBlockID", chain |-> c]
    ELSE IF ~IsSome(block.parent_id)
    THEN [res |-> "NoParentGiven", chain |-> c]
    ELSE IF Unwrap(block.parent_id) \notin DOMAIN c.blocks
    THEN [res |-> "ParentNotFound", chain |-> c]
    ELSE IF block.id <= c.blocks[Unwrap(block.parent_id)].block.id
    THEN [res |-> "InvalidParent",
          chain |-> [c EXCEPT !.blocks[Unwrap(block.parent_id)].children =
                                  Append(@, block.id)]]
    ELSE [res |-> "Ok", chain |-> InsertBlock(c, block, Unwrap(block.parent_id))]

\* Blockchain::publish: the result and the chain after the call
publish(c, block) ==
    IF Contains(c, block.id)
    THEN [res |-> "DuplicateBlockID", chain |-> c]
    ELSE IF ~IsSome(block.parent_id)
    THEN [res |-> "NoParentGiven", chain |-> c]
    ELSE IF Unwrap(block.parent_id) \notin DOMAIN c.blocks
    THEN [res |-> "ParentNotFound", chain |-> c]
    ELSE IF block.id <= c.blocks[Unwrap(block.parent_id)].block.id
    THEN [res |-> "InvalidParent", chain |-> c]
    ELSE [res |-> "Ok", chain |-> InsertBlock(c, block, Unwrap(block.parent_id))]

\* Ancestors::new
AncestorsNew(c, start) ==
    [curr_id |-> IF start \in DOMAIN c.blocks THEN Some(start) ELSE None]

\* Ancestors::next that skips the parent of the block it returns
AncestorsNext_skip(c, it) ==
    IF IsSome(it.curr_id)
    THEN [item |-> Some(Unwrap(it.curr_id)),
          it |-> [curr_id |->
                    LET p == c.blocks[Unwrap(it.curr_id)].block.parent_id
                    IN IF IsSome(p) THEN c.blocks[Unwrap(p)].block.parent_id ELSE p]]
    ELSE [item |-> None, it |-> it]

\* Ancestors::next: the item returned and the iterator after the call
AncestorsNext(c, it) ==
    IF IsSome(it.curr_id)
    THEN [item |-> Some(Unwrap(it.curr_id)),
          it |-> [curr_id |-> c.blocks[Unwrap(it.curr_id)].block.parent_id]]
    ELSE [item |-> None, it |-> it]

\* Blockchain::ancestors_of
ancestors_of(c, id) == AncestorsNew(c, id)

\* Blockchain::longest_chain
longest_chain(c) == AncestorsNew(c, c.blocks_by_height[c.max_height + 1][1])

----------------------------------------------------------------------------
(* TieBreaker, in its two versions: src/src/tie_breaker.rs (choose) and    *)
(* src/src/miner/ties.rs (ties_choose).  A probability is an integer count *)
(* of halves, so 1.0 is ProbOne.  The random draw a call makes is an       *)
(* argument: for Random the index drawn, otherwise the number drawn from   *)
(* [0, 1).  A call that panics returns None here, a returned id b Some(b). *)

ProbOne == 2

EarliestPublished == [kind |-> "EarliestPublished"]
FavorMiner(miner_id) == [kind |-> "FavorMiner", miner_id |-> miner_id]
FavorMinerFork(miner_id, depth) ==
    [kind |-> "FavorMinerFork", miner_id |-> miner_id, depth |-> depth]
FavorMinerProb(miner_id, prob) ==
    [kind |-> "FavorMinerProb", miner_id |-> miner_id, prob |-> prob]
Random == [kind |-> "Random"]

\* ids.iter().find(|b| chain[b].block.miner_id == miner).copied()
FindBy(c, ids, miner) ==
    LET hits == {i \in DOMAIN ids : c.blocks[ids[i]].block.miner_id = miner}
    IN IF hits = {} THEN None ELSE Some(ids[CHOOSE i \in hits : \A j \in hits : i <= j])

\* ids.iter().find(|b| chain[b].block.miner_id != miner).copied()
FindNotBy(c, ids, miner) ==
    LET hits == {i \in DOMAIN ids : c.blocks[ids[i]].block.miner_id # miner}
    IN IF hits = {} THEN None ELSE Some(ids[CHOOSE i \in hits : \A j \in hits : i <= j])

\* rng.gen_bool(prob), and gen_range(0.0..1.0) < prob, for the number drawn
Hit(draw, prob) == draw < prob

\* choose with FavorMiner looking for the favoured miner among all blocks
choose_any_block(tb, c, draw) ==
    IF tb.kind = "FavorMiner"
    THEN Some(unwrap_or(FindBy(c, IdsByHeight(c, 0), tb.miner_id), tip(c)[1]))
    ELSE Some(tip(c)[1])

\* TieBreaker::choose of tie_breaker.rs
choose(tb, c, draw) ==
    CASE tb.kind = "EarliestPublished" -> Some(tip(c)[1])
      [] tb.kind = "FavorMiner" ->
            Some(unwrap_or(FindBy(c, tip(c), tb.miner_id), tip(c)[1]))
      [] tb.kind = "FavorMinerProb" ->
            IF ~(0 <= tb.prob /\ tb.prob <= ProbOne)
            THEN None
            ELSE LET favored == FindBy(c, tip(c), tb.miner_id)
                     not_favored == FindNotBy(c, tip(c), tb.miner_id)
                 IN IF IsSome(favored) /\ ~IsSome(not_favored) THEN favored
                    ELSE IF ~IsSome(favored) /\ IsSome(not_favored) THEN not_favored
                    ELSE IF IsSome(favored) /\ IsSome(not_favored)
                    THEN (IF Hit(draw, tb.prob) THEN favored ELSE not_favored)
                    ELSE None
      [] tb.kind = "Random" -> Some(tip(c)[(draw % Len(tip(c))) + 1])

\* max_height.saturating_sub(depth)
saturating_sub(a, b) == IF a >= b THEN a - b ELSE 0

\* The loop of the FavorMinerFork arm: heights i down to lowest
RECURSIVE ForkScan(_, _, _, _)
ForkScan(c, miner, i, lowest) ==
    IF i < lowest
    THEN tip(c)[1]
    ELSE LET curr == FindBy(c, Unwrap(at_height(c, i)), miner)
         IN IF IsSome(curr) THEN Unwrap(curr) ELSE ForkScan(c, miner, i - 1, lowest)

\* ties_choose with FavorMinerProb never making its draw: the favoured block
\* is returned whenever there is one
ties_choose_no_draw(tb, c, draw) ==
    CASE tb.kind \in {"FavorMiner", "FavorMinerProb"} ->
            Some(unwrap_or(FindBy(c, tip(c), tb.miner_id), tip(c)[1]))
      [] OTHER -> Some(tip(c)[1])

\* TieBreaker::choose of miner/ties.rs
ties_choose(tb, c, draw) ==
    CASE tb.kind = "EarliestPublished" -> Some(tip(c)[1])
      [] tb.kind = "FavorMiner" ->
            Some(unwrap_or(FindBy(c, tip(c), tb.miner_id), tip(c)[1]))
      [] tb.kind = "FavorMinerFork" ->
            Some(ForkScan(c, tb.miner_id, c.max_height,
                          saturating_sub(c.max_height, tb.depth)))
      [] tb.kind = "FavorMinerProb" ->
            LET favored == FindBy(c, tip(c), tb.miner_id)
                not_favored == FindNotBy(c, tip(c), tb.miner_id)
            IN IF ~IsSome(favored)
               THEN not_favored
               ELSE IF Hit(draw, tb.prob)
                    THEN favored
                    ELSE Some(unwrap_or(not_favored, Unwrap(favored)))

----------------------------------------------------------------------------
(* Strategies.  A strategy object is a record; kind "Any" stands for an    *)
(* arbitrary implementation of the Miner trait: get_action may return any  *)
(* action, and set_id may or may not store the id it is given.             *)

\* MinerId::default
MinerIdDefault == 1

\* A strategy object before set_id, as its constructor leaves it
NewMiner(stores_id, id0) == [kind |-> "Any", stores_id |-> stores_id, id |-> id0]

\* Miner::set_id; Selfish, NDeficit and NDeficitEager also set their tie breaker
set_id(m, id) ==
    IF ~m.stores_id THEN m
    ELSE IF m.kind \in {"Selfish", "NDeficit", "NDeficitEager"}
    THEN [m EXCEPT !.id = id, !.tie_breaker = FavorMiner(id)]
    ELSE [m EXCEPT !.id = id]

\* Miner::id
id_of(m) == m.id

Wait == [type |-> "Wait", blocks |-> <<>>]
PublishAct(b) == [type |-> "Publish", blocks |-> <<b>>]
PublishSet(bs) == [type |-> "PublishSet", blocks |-> bs]

\* Blocks a strategy of a run with n miners may put in an action: any id a round
\* can carry (and 0), any parent option over them, and as miner id its own id or
\* one that is not its own (the next strategy's, or 0 when it is alone).
RoundIds == 0..MaxRounds
OtherMiner(id, n) == IF n > 1 THEN (id % n) + 1 ELSE GENESIS_MINER
StrategyBlocks(m, n) ==
    [id : RoundIds, parent_id : {None} \cup {Some(i) : i \in RoundIds},
     miner_id : {id_of(m), OtherMiner(id_of(m), n)}]

\* Whether the driver would get past block b of strategy m on chain c
Accepted(m, c, b) == b.miner_id = id_of(m) /\ publish(c, b).res = "Ok"

\* Miner::get_action: the actions the strategy may return.  Wait, Publish of any
\* block, PublishSet of any two blocks; where the driver stops at the first block
\* of a set it never reads the second, which is then drawn as a copy of the first.
get_action(m, c, block_mined, n) ==
    {Wait} \cup {PublishAct(b) : b \in StrategyBlocks(m, n)}
           \cup UNION {{PublishSet(<<b1, b2>>) :
                           b2 \in IF Accepted(m, c, b1) THEN StrategyBlocks(m, n) ELSE {b1}} :
                       b1 \in StrategyBlocks(m, n)}

----------------------------------------------------------------------------
(* Built-in strategies.  get_action takes the draw its tie breaker may     *)
(* make and returns the action together with the strategy after the call;  *)
(* a call that panics returns the action Panic, naming what failed.        *)

Panic(why) == [type |-> "Panic", blocks |-> <<>>, why |-> why]

\* Honest::new
HonestNew ==
    [kind |-> "Honest", stores_id |-> TRUE, id |-> MinerIdDefault,
     tie_breaker |-> EarliestPublished]

\* Honest::with_tie_breaker
HonestWithTieBreaker(tb) == [HonestNew EXCEPT !.tie_breaker = tb]

\* Honest::get_action with the genesis block as the parent of every block
Honest_get_action_genesis(m, c, block_mined, draw) ==
    IF IsSome(block_mined)
    THEN [action |-> PublishAct(Block(Unwrap(block_mined), Some(GENESIS_ID), m.id)),
          miner |-> m]
    ELSE [action |-> Wait, miner |-> m]

\* Honest::get_action
Honest_get_action(m, c, block_mined, draw) ==
    IF IsSome(block_mined)
    THEN LET parent_id == choose(m.tie_breaker, c, draw)
         IN IF ~IsSome(parent_id)
            THEN [action |-> Panic("assert"), miner |-> m]
            ELSE [action |-> PublishAct(Block(Unwrap(block_mined), parent_id, m.id)),
                  miner |-> m]
    ELSE [action |-> Wait, miner |-> m]

\* Selfish::new
SelfishNew ==
    [kind |-> "Selfish", stores_id |-> TRUE, id |-> MinerIdDefault,
     hidden_blocks |-> <<>>, private_height |-> 0, tie_breaker |-> EarliestPublished]

\* lc.iter().any(|b| chain[b].block.miner_id == id), and != id
AnyBy(c, ids, id) == \E i \in DOMAIN ids : c.blocks[ids[i]].block.miner_id = id
AnyNotBy(c, ids, id) == \E i \in DOMAIN ids : c.blocks[ids[i]].block.miner_id # id
\* get_action putting every mined block on the tie-broken public tip, also
\* when blocks are hidden
Selfish_get_action_flat(m, c, block_mined, draw) ==
    IF IsSome(block_mined) /\ ~IsSome(choose(m.tie_breaker, c, draw))
    THEN [action |-> Panic("assert"), miner |-> m]
    ELSE IF IsSome(block_mined)
    THEN LET empty == m.hidden_blocks = <<>>
             p == Unwrap(choose(m.tie_breaker, c, draw))
             height == IF empty THEN c.blocks[p].height + 1 ELSE m.private_height + 1
             block == Block(Unwrap(block_mined), Some(p), m.id)
         IN IF empty /\ AnyBy(c, tip(c), m.id) /\ AnyNotBy(c, tip(c), m.id)
            THEN [action |-> PublishAct(block), miner |-> [m EXCEPT !.private_height = height]]
            ELSE [action |-> Wait,
                  miner |-> [m EXCEPT !.private_height = height,
                                      !.hidden_blocks = Append(@, block)]]
    ELSE CASE Len(m.hidden_blocks) = 0 -> [action |-> Wait, miner |-> m]
           [] Len(m.hidden_blocks) = 2 ->
                [action |-> PublishSet(m.hidden_blocks),
                 miner |-> [m EXCEPT !.hidden_blocks = <<>>]]
           [] OTHER ->
                [action |-> PublishAct(m.hidden_blocks[1]),
                 miner |-> [m EXCEPT !.hidden_blocks = Tail(@)]]


\* Selfish::get_action without the clearing of a hidden queue that fell behind
Selfish_get_action_keep(m, c, block_mined, draw) ==
    IF IsSome(block_mined) /\ m.hidden_blocks = <<>>
                           /\ ~IsSome(choose(m.tie_breaker, c, draw))
    THEN [action |-> Panic("assert"), miner |-> m]
    ELSE IF IsSome(block_mined)
    THEN LET empty == m.hidden_blocks = <<>>
             p == Unwrap(choose(m.tie_breaker, c, draw))
             parent_id == IF empty THEN p ELSE m.hidden_blocks[Len(m.hidden_blocks)].id
             height == IF empty THEN c.blocks[p].height + 1 ELSE m.private_height + 1
             block == Block(Unwrap(block_mined), Some(parent_id), m.id)
         IN IF empty /\ AnyBy(c, tip(c), m.id) /\ AnyNotBy(c, tip(c), m.id)
            THEN [action |-> PublishAct(block), miner |-> [m EXCEPT !.private_height = height]]
            ELSE [action |-> Wait,
                  miner |-> [m EXCEPT !.private_height = height,
                                      !.hidden_blocks = Append(@, block)]]
    ELSE CASE Len(m.hidden_blocks) = 0 -> [action |-> Wait, miner |-> m]
           [] Len(m.hidden_blocks) = 2 ->
                [action |-> PublishSet(m.hidden_blocks),
                 miner |-> [m EXCEPT !.hidden_blocks = <<>>]]
           [] OTHER ->
                [action |-> PublishAct(m.hidden_blocks[1]),
                 miner |-> [m EXCEPT !.hidden_blocks = Tail(@)]]

\* Selfish::get_action publishing only the front block of a queue of two
Selfish_get_action_front(m, c, block_mined, draw) ==
    LET g == Selfish_get_action_keep(
                 IF m.private_height < max_height(c)
                 THEN [m EXCEPT !.hidden_blocks = <<>>] ELSE m,
                 c, block_mined, draw)
    IN IF g.action.type = "PublishSet"
       THEN [action |-> PublishAct(g.action.blocks[1]),
             miner |-> [g.miner EXCEPT !.hidden_blocks = Tail(g.action.blocks)]]
       ELSE g

\* Selfish::get_action keeping a hidden queue that fell behind the public chain
Selfish_get_action_stale(m, c, block_mined, draw) ==
    Selfish_get_action_keep(m, c, block_mined, draw)

\* Selfish::get_action hiding every block it mines, fork at the tip or not
Selfish_get_action_hide(m, c, block_mined, draw) ==
    LET g == Selfish_get_action_keep(
                 IF m.private_height < max_height(c)
                 THEN [m EXCEPT !.hidden_blocks = <<>>] ELSE m,
                 c, block_mined, draw)
    IN IF IsSome(block_mined) /\ g.action.type = "Publish"
       THEN [action |-> Wait,
             miner |-> [g.miner EXCEPT !.hidden_blocks = g.action.blocks]]
       ELSE g

\* Selfish::get_action publishing a queue of three or more blocks whole
Selfish_get_action_drain(m, c, block_mined, draw) ==
    LET g == Selfish_get_action_keep(
                 IF m.private_height < max_height(c)
                 THEN [m EXCEPT !.hidden_blocks = <<>>] ELSE m,
                 c, block_mined, draw)
    IN IF ~IsSome(block_mined) /\ Len(g.miner.hidden_blocks) >= 2
       THEN [action |-> PublishSet(g.action.blocks \o g.miner.hidden_blocks),
             miner |-> [g.miner EXCEPT !.hidden_blocks = <<>>]]
       ELSE g

\* Selfish::get_action
Selfish_get_action(m, c, block_mined, draw) ==
    Selfish_get_action_keep(
        IF m.private_height < max_height(c) THEN [m EXCEPT !.hidden_blocks = <<>>] ELSE m,
        c, block_mined, draw)

----------------------------------------------------------------------------
(* NDeficit (src/src/miner/ndeficit.rs).  A debug_assert and an underflow  *)
(* of a usize subtraction are taken as the panics of a build with checks   *)
(* on.                                                                     *)

\* StateEntry::A, StateEntry::H
A(n) == [entry |-> "A", count |-> n]
H(n) == [entry |-> "H", count |-> n]

\* NDeficit::new
NDeficitNew(i) ==
    [kind |-> "NDeficit", stores_id |-> TRUE, id |-> MinerIdDefault, i |-> i,
     tie_breaker |-> EarliestPublished, capitulation |-> GENESIS_ID, state |-> <<>>,
     seen |-> {}, our_blocks |-> <<>>, honest_blocks |-> <<>>]

\* NDeficit::clear_state
clear_state(m) ==
    [m EXCEPT !.state = <<>>, !.seen = {}, !.our_blocks = <<>>, !.honest_blocks = <<>>]

\* capitulate without the call of clear_state
capitulate_keep(m, genesis) == [m EXCEPT !.capitulation = genesis]

\* NDeficit::capitulate
capitulate(m, genesis) == clear_state([m EXCEPT !.capitulation = genesis])

\* The run stack with every push a new entry
Bump_append(state, entry, n) == Append(state, [entry |-> entry, count |-> n])

\* match self.state.last_mut() { Some(E(count)) => *count += n, _ => push(E(n)) }
Bump(state, entry, n) ==
    IF state # <<>> /\ state[Len(state)].entry = entry
    THEN [state EXCEPT ![Len(state)].count = @ + n]
    ELSE Append(state, [entry |-> entry, count |-> n])

Reverse(seq) == [k \in 1..Len(seq) |-> seq[Len(seq) + 1 - k]]

\* The loop of update_state over chain.ancestors_of(tip) (lines 74-85), from the
\* iterator it on: the strategy, the unseen blocks pushed, and whether the loop
\* capitulated and returned
RECURSIVE ScanUnseen(_, _, _, _, _, _)
ScanUnseen(m, c, it, unseen, cap_height, tip_id) ==
    The({IF ~IsSome(r.item)
         THEN [miner |-> m, unseen |-> unseen, returned |-> FALSE]
         ELSE LET curr == Unwrap(r.item)
              IN IF curr = m.capitulation \/ curr \in m.seen
                 THEN [miner |-> m, unseen |-> unseen, returned |-> FALSE]
                 ELSE IF c.blocks[curr].height <= cap_height
                 THEN [miner |-> capitulate(m, tip_id), unseen |-> unseen,
                       returned |-> TRUE]
                 ELSE The({ScanUnseen(m2, c, r.it, unseen2, cap_height, tip_id) :
                              m2 \in {[m EXCEPT !.seen = @ \cup {curr}]},
                              unseen2 \in {Append(unseen, curr)}}) :
         r \in {AncestorsNext(c, it)}})

\* NDeficit::update_state: the strategy after the call, and the panic if any
update_state(m, c, block_mined, draw) ==
    LET t == choose(m.tie_breaker, c, draw)
    IN IF ~IsSome(t) THEN [panic |-> "assert", miner |-> m]
       ELSE IF ~Contains(c, m.capitulation) THEN [panic |-> "index", miner |-> m]
       ELSE IF m.our_blocks = <<>>
                 /\ ~(m.state = <<>> /\ m.seen = {} /\ m.honest_blocks = <<>>)
       THEN [panic |-> "debug_assert", miner |-> m]
       ELSE LET tip_id == Unwrap(t)
                cap_height == c.blocks[m.capitulation].height
                scan == IF m.our_blocks # <<>>
                        THEN ScanUnseen(m, c, ancestors_of(c, tip_id), <<>>, cap_height,
                                        tip_id)
                        ELSE [miner |-> [m EXCEPT !.capitulation = tip_id],
                              unseen |-> <<>>, returned |-> FALSE]
            IN The({LET m1 == IF s.unseen # <<>>
                              THEN [s.miner EXCEPT
                                      !.state = Bump(@, "H", Len(s.unseen)),
                                      !.honest_blocks = @ \o Reverse(s.unseen)]
                              ELSE s.miner
                    IN IF s.returned THEN [panic |-> "", miner |-> s.miner]
                       ELSE IF IsSome(block_mined)
                       THEN [panic |-> "",
                             miner |-> [m1 EXCEPT
                                          !.seen = @ \cup {Unwrap(block_mined)},
                                          !.our_blocks = Append(@, Unwrap(block_mined)),
                                          !.state = Bump(@, "A", 1)]]
                       ELSE [panic |-> "", miner |-> m1] :
                    s \in {scan}})

\* block_path_to giving every block of the path the same parent
block_path_to_flat(m, ours, parent) ==
    [k \in 1..Len(ours) |-> Block(ours[k], Some(parent), m.id)]

\* NDeficit::block_path_to, on the queue ours: the path; the call drains our_blocks
block_path_to(m, ours, parent) ==
    [k \in 1..Len(ours) |->
        Block(ours[k], Some(IF k = 1 THEN parent ELSE ours[k - 1]), m.id)]

\* publish_all publishing the front hidden block only
publish_all_front(m) ==
    LET path == block_path_to(m, m.our_blocks, m.capitulation)
    IN IF path = <<>>
       THEN [action |-> Panic("unwrap"), miner |-> m]
       ELSE [action |-> PublishSet(<<path[1]>>),
             miner |-> capitulate([m EXCEPT !.our_blocks = <<>>], path[1].id)]

\* NDeficit::publish_all
publish_all(m) ==
    LET path == block_path_to(m, m.our_blocks, m.capitulation)
    IN IF path = <<>>
       THEN [action |-> Panic("unwrap"), miner |-> m]
       ELSE [action |-> PublishSet(path),
             miner |-> capitulate([m EXCEPT !.our_blocks = <<>>], path[Len(path)].id)]

\* The arm of [A(1), H(x)] and of [A(1), H(x), A(1)] waiting whatever x is
CapitulateOver_never(m, x) == [action |-> Wait, miner |-> m]

\* The arm of [A(1), H(x)] and of [A(1), H(x), A(1)] (lines 159-173)
CapitulateOver(m, x) ==
    IF x > m.i
    THEN IF x > Len(m.honest_blocks)
         THEN [action |-> Panic("index"), miner |-> m]
         ELSE [action |-> Wait, miner |-> capitulate(m, m.honest_blocks[x])]
    ELSE [action |-> Wait, miner |-> m]

\* The arm of [A(1), H(x), A(2..), ..] keeping the front hidden block in the
\* partial path
RaceArm_whole(m, x) ==
    LET ours == Len(m.our_blocks)
        honest == Len(m.honest_blocks)
    IN IF x > m.i THEN [action |-> Panic("debug_assert"), miner |-> m]
       ELSE IF ours = honest + 1 THEN publish_all(m)
       ELSE IF ours < 1 \/ honest < x THEN [action |-> Panic("arithmetic"), miner |-> m]
       ELSE IF ours - 1 = honest - x + 1
       THEN LET path == block_path_to(m, m.our_blocks, m.honest_blocks[x])
            IN [action |-> PublishSet(path),
                miner |-> capitulate([m EXCEPT !.our_blocks = <<>>],
                                     path[Len(path)].id)]
       ELSE [action |-> Wait, miner |-> m]

\* The arm of [A(1), H(x), A(2..), ..] publishing all hidden blocks when
\* they are as many as the honest blocks
RaceArm_even(m, x) ==
    LET ours == Len(m.our_blocks)
        honest == Len(m.honest_blocks)
    IN IF x > m.i THEN [action |-> Panic("debug_assert"), miner |-> m]
       ELSE IF ours = honest THEN publish_all(m)
       ELSE IF ours < 1 \/ honest < x THEN [action |-> Panic("arithmetic"), miner |-> m]
       ELSE IF ours - 1 = honest - x + 1
       THEN LET path == block_path_to(m, Tail(m.our_blocks), m.honest_blocks[x])
            IN IF path = <<>>
               THEN [action |-> Panic("unwrap"), miner |-> m]
               ELSE [action |-> PublishSet(path),
                     miner |-> capitulate([m EXCEPT !.our_blocks = <<>>],
                                          path[Len(path)].id)]
       ELSE [action |-> Wait, miner |-> m]

\* The arm of [A(1), H(x), A(2..), ..] (lines 174-190)
RaceArm(m, x) ==
    LET ours == Len(m.our_blocks)
        honest == Len(m.honest_blocks)
    IN IF x > m.i THEN [action |-> Panic("debug_assert"), miner |-> m]
       ELSE IF ours = honest + 1 THEN publish_all(m)
       ELSE IF ours < 1 \/ honest < x THEN [action |-> Panic("arithmetic"), miner |-> m]
       ELSE IF ours - 1 = honest - x + 1
       THEN LET path == block_path_to(m, Tail(m.our_blocks), m.honest_blocks[x])
            IN IF path = <<>>
               THEN [action |-> Panic("unwrap"), miner |-> m]
               ELSE [action |-> PublishSet(path),
                     miner |-> capitulate([m EXCEPT !.our_blocks = <<>>],
                                          path[Len(path)].id)]
       ELSE [action |-> Wait, miner |-> m]

\* The arm of [A(1), H(x), A(1), H(1)] without the clearing of seen
ManualArm_keep_seen(m, x) ==
    IF x > m.i THEN [action |-> Panic("debug_assert"), miner |-> m]
    ELSE IF Len(m.our_blocks) < 2 \/ Len(m.honest_blocks) < x + 1
    THEN [action |-> Panic("index"), miner |-> m]
    ELSE [action |-> Wait,
          miner |-> [m EXCEPT !.state = <<A(1), H(1)>>,
                              !.capitulation = m.honest_blocks[x],
                              !.our_blocks = Tail(m.our_blocks),
                              !.honest_blocks =
                                  SubSeq(m.honest_blocks, x + 1, Len(m.honest_blocks))]]

\* The arm of [A(1), H(x), A(1), H(1)] (lines 191-206)
ManualArm(m, x) ==
    IF x > m.i THEN [action |-> Panic("debug_assert"), miner |-> m]
    ELSE IF Len(m.our_blocks) < 2 \/ Len(m.honest_blocks) < x + 1
    THEN [action |-> Panic("index"), miner |-> m]
    ELSE LET ours == Tail(m.our_blocks)
             honest == SubSeq(m.honest_blocks, x + 1, Len(m.honest_blocks))
         IN [action |-> Wait,
             miner |-> [m EXCEPT !.state = <<A(1), H(1)>>,
                                 !.capitulation = m.honest_blocks[x],
                                 !.our_blocks = ours,
                                 !.honest_blocks = honest,
                                 !.seen = {ours[1], honest[1]}]]

\* Whether map_state's match finds an arm for the state other than `_`
Listed(s) ==
    LET n == Len(s)
    IN \/ n = 0
       \/ n >= 1 /\ s[1].entry = "A" /\ s[1].count >= 2
       \/ n = 1 /\ s[1] = A(1)
       \/ n = 2 /\ s[1] = A(1) /\ s[2].entry = "H"
       \/ n = 3 /\ s[1] = A(1) /\ s[2].entry = "H" /\ s[3] = A(1)
       \/ n >= 3 /\ s[1] = A(1) /\ s[2].entry = "H" /\ s[3].entry = "A"
                 /\ s[3].count >= 2
       \/ n = 4 /\ s[1] = A(1) /\ s[2].entry = "H" /\ s[3] = A(1) /\ s[4] = H(1)

\* NDeficit::map_state
map_state(m) ==
    LET s == m.state
        n == Len(s)
    IN IF n = 0 THEN [action |-> Wait, miner |-> m]
       ELSE IF n = 1 /\ s[1] = A(1) THEN [action |-> Wait, miner |-> m]
       ELSE IF s[1].entry = "A" /\ s[1].count >= 2
       THEN IF Len(m.our_blocks) = Len(m.honest_blocks) + 1
            THEN publish_all(m)
            ELSE [action |-> Wait, miner |-> m]
       ELSE IF n = 2 /\ s[1] = A(1) /\ s[2].entry = "H"
       THEN CapitulateOver(m, s[2].count)
       ELSE IF n = 3 /\ s = <<A(1), H(1), A(1)>> THEN publish_all(m)
       ELSE IF n = 3 /\ s[1] = A(1) /\ s[2].entry = "H" /\ s[3] = A(1)
       THEN CapitulateOver(m, s[2].count)
       ELSE IF n >= 3 /\ s[1] = A(1) /\ s[2].entry = "H" /\ s[3].entry = "A"
                      /\ s[3].count >= 2
       THEN RaceArm(m, s[2].count)
       ELSE IF n = 4 /\ s[1] = A(1) /\ s[2].entry = "H" /\ s[3] = A(1) /\ s[4] = H(1)
       THEN ManualArm(m, s[2].count)
       ELSE [action |-> Panic("illegal n-deficit state"), miner |-> m]

\* NDeficit::get_action
NDeficit_get_action(m, c, block_mined, draw) ==
    The({IF u.panic # "" THEN [action |-> Panic(u.panic), miner |-> m]
         ELSE map_state(u.miner) :
         u \in {update_state(m, c, block_mined, draw)}})

----------------------------------------------------------------------------
(* NDeficitEager (src/mining-sim/src/miner/ndeficiteager.rs).  Its fields,  *)
(* update_state, block_path_to and publish_all are those of NDeficit, and  *)
(* publish_one has the body of publish_all.                                *)

\* NDeficitEager::new
NDeficitEagerNew(i) == [NDeficitNew(i) EXCEPT !.kind = "NDeficitEager"]

\* NDeficitEager::publish_one
publish_one(m) == publish_all(m)

\* The arm of [A(2..), ..] (lines 177-188)
EagerLeadArm(m) ==
    IF Len(m.our_blocks) = Len(m.honest_blocks) + 1 THEN publish_all(m)
    ELSE IF Len(m.honest_blocks) > 0 THEN publish_one(m)
    ELSE [action |-> Panic("we should maintain the lead"), miner |-> m]

\* The arm of [A(1), H(x), A(2..), ..] (lines 204-222)
EagerRaceArm(m, x) ==
    LET ours == Len(m.our_blocks)
        honest == Len(m.honest_blocks)
    IN IF x > m.i THEN [action |-> Panic("debug_assert"), miner |-> m]
       ELSE IF ours = honest + 1 THEN publish_all(m)
       ELSE IF ours < 1 \/ honest < x THEN [action |-> Panic("arithmetic"), miner |-> m]
       ELSE IF ours - 1 = honest - x + 1 \/ ours - 1 = honest - x
       THEN LET path == block_path_to(m, Tail(m.our_blocks), m.honest_blocks[x])
            IN IF path = <<>>
               THEN [action |-> Panic("unwrap"), miner |-> m]
               ELSE [action |-> PublishSet(path),
                     miner |-> capitulate([m EXCEPT !.our_blocks = <<>>],
                                          path[Len(path)].id)]
       ELSE [action |-> Wait, miner |-> m]

\* NDeficitEager::map_state
Eager_map_state(m) ==
    LET s == m.state
        n == Len(s)
    IN IF n = 0 THEN [action |-> Wait, miner |-> m]
       ELSE IF n = 1 /\ s[1] = A(1) THEN [action |-> Wait, miner |-> m]
       ELSE IF s[1].entry = "A" /\ s[1].count >= 2 THEN EagerLeadArm(m)
       ELSE IF n = 2 /\ s[1] = A(1) /\ s[2].entry = "H"
       THEN CapitulateOver(m, s[2].count)
       ELSE IF n = 3 /\ s = <<A(1), H(1), A(1)>> THEN publish_all(m)
       ELSE IF n = 3 /\ s[1] = A(1) /\ s[2].entry = "H" /\ s[3] = A(1)
       THEN CapitulateOver(m, s[2].count)
       ELSE IF n >= 3 /\ s[1] = A(1) /\ s[2].entry = "H" /\ s[3].entry = "A"
                      /\ s[3].count >= 2
       THEN EagerRaceArm(m, s[2].count)
       ELSE IF n = 4 /\ s[1] = A(1) /\ s[2].entry = "H" /\ s[3] = A(1) /\ s[4] = H(1)
       THEN ManualArm(m, s[2].count)
       ELSE [action |-> Panic("illegal n-deficit state"), miner |-> m]

\* The condition of the fork case of get_action (lines 263-273)
ForkCase(m, c, block_mined) ==
    /\ m.our_blocks = <<>>
    /\ IsSome(block_mined)
    /\ AnyBy(c, tip(c), m.id)
    /\ AnyNotBy(c, tip(c), m.id)

\* NDeficitEager::get_action without the fork case
Eager_get_action_no_fork(m, c, block_mined, draw) ==
    The({IF u.panic # "" THEN [action |-> Panic(u.panic), miner |-> m]
         ELSE Eager_map_state(u.miner) :
         u \in {update_state(m, c, block_mined, draw)}})

\* NDeficitEager::get_action
Eager_get_action(m, c, block_mined, draw) ==
    IF ForkCase(m, c, block_mined)
    THEN [action |-> PublishAct(Block(Unwrap(block_mined), FindBy(c, tip(c), m.id),
                                      m.id)),
          miner |-> capitulate(m, Unwrap(block_mined))]
    ELSE The({IF u.panic # "" THEN [action |-> Panic(u.panic), miner |-> m]
              ELSE Eager_map_state(u.miner) :
              u \in {update_state(m, c, block_mined, draw)}})

----------------------------------------------------------------------------
(* HonestForking (src/src/miner/honestforking.rs) and Noop.  The draw of a *)
(* HonestForking call holds the two numbers it draws: draw \div ProbOne    *)
(* for its tie breaker and draw % ProbOne for gen_bool(p).                 *)

\* HonestForking::new
HonestForkingNew(p) ==
    [kind |-> "HonestForking", stores_id |-> TRUE, id |-> MinerIdDefault, p |-> p,
     tie_breaker |-> EarliestPublished]

\* get_action with the fork put on the parent_id of the tip as it is stored,
\* None for the genesis block
HonestForking_get_action_no_default(m, c, block_mined, draw) ==
    IF IsSome(block_mined)
    THEN LET lc == choose(m.tie_breaker, c, draw \div ProbOne)
         IN IF Hit(draw % ProbOne, m.p)
            THEN [action |-> PublishAct(Block(Unwrap(block_mined),
                                              c.blocks[Unwrap(lc)].block.parent_id, m.id)),
                  miner |-> m]
            ELSE [action |-> PublishAct(Block(Unwrap(block_mined), lc, m.id)),
                  miner |-> m]
    ELSE [action |-> Wait, miner |-> m]

\* HonestForking::get_action
HonestForking_get_action(m, c, block_mined, draw) ==
    IF IsSome(block_mined)
    THEN LET lc == choose(m.tie_breaker, c, draw \div ProbOne)
         IN IF ~IsSome(lc) THEN [action |-> Panic("assert"), miner |-> m]
            ELSE IF ~(0 <= m.p /\ m.p <= ProbOne)
            THEN [action |-> Panic("gen_bool"), miner |-> m]
            ELSE IF Hit(draw % ProbOne, m.p)
            THEN [action |-> PublishAct(Block(Unwrap(block_mined),
                                Some(unwrap_or(c.blocks[Unwrap(lc)].block.parent_id,
                                               Unwrap(lc))),
                                m.id)),
                  miner |-> m]
            ELSE [action |-> PublishAct(Block(Unwrap(block_mined), lc, m.id)),
                  miner |-> m]
    ELSE [action |-> Wait, miner |-> m]

\* Noop::new
NoopNew == [kind |-> "Noop", stores_id |-> TRUE, id |-> MinerIdDefault]

\* Noop::get_action
Noop_get_action(m, c, block_mined, draw) == [action |-> Wait, miner |-> m]

\* Miner::get_action of the built-in strategies, by the type of the object
strategy_get_action(m, c, block_mined, draw) ==
    CASE m.kind = "Honest" -> Honest_get_action(m, c, block_mined, draw)
      [] m.kind = "Selfish" -> Selfish_get_action(m, c, block_mined, draw)
      [] m.kind = "NDeficit" -> NDeficit_get_action(m, c, block_mined, draw)
      [] m.kind = "NDeficitEager" -> Eager_get_action(m, c, block_mined, draw)
      [] m.kind = "HonestForking" -> HonestForking_get_action(m, c, block_mined, draw)
      [] m.kind = "Noop" -> Noop_get_action(m, c, block_mined, draw)

----------------------------------------------------------------------------
(* PowerDistribution.  A PowerValue is an integer count of EPSILON_POWER  *)
(* units (1e-6), so 1.0 is One.  NaN is a value of its own, kept apart from *)
(* every number handed in; no comparison is ever made on it.               *)

EPSILON_POWER == 1
One == 1000000
NaN == -1000000000

Equal == [kind |-> "Equal"]
SetValues(dist) == [kind |-> "SetValues", dist |-> dist]
SetMiner(miner_id, power) == [kind |-> "SetMiner", miner_id |-> miner_id, power |-> power]

is_nan(x) == x = NaN

\* (0.0..1.0).contains(x): the half-open range
InRange(x) == x # NaN /\ 0 <= x /\ x < One

\* (0.0..=1.0).contains(x): the closed range
InRangeInclusive(x) == x # NaN /\ 0 <= x /\ x <= One

\* dist.iter().sum()
RECURSIVE Sum(_)
Sum(dist) == IF dist = <<>> THEN 0 ELSE dist[1] + Sum(Tail(dist))

Abs(x) == IF x < 0 THEN -x ELSE x

\* dist.iter().find(|x| x.is_nan() || !(0.0..1.0).contains(x)): index of the
\* first such entry, 0 when there is none
FindBad(dist) ==
    LET bad == {i \in DOMAIN dist : is_nan(dist[i]) \/ ~InRange(dist[i])}
    IN IF bad = {} THEN 0 ELSE CHOOSE i \in bad : \A j \in bad : i <= j

\* PowerDistribution::validate
validate(pd, num_miners) ==
    IF num_miners = 0 THEN "ZeroMinersGiven"
    ELSE CASE pd.kind = "Equal" -> "Ok"
           [] pd.kind = "SetValues" ->
                IF Len(pd.dist) # num_miners THEN "WrongNumMiners"
                ELSE IF FindBad(pd.dist) # 0 THEN "BadPowerValue"
                ELSE IF Abs(Sum(pd.dist) - One) > EPSILON_POWER THEN "BadDistributionSum"
                ELSE "Ok"
           [] pd.kind = "SetMiner" ->
                IF num_miners = 1 THEN "SetMinerSingleMiner"
                ELSE IF pd.miner_id = 0 THEN "SetMinerGenesisMiner"
                ELSE IF pd.miner_id > num_miners THEN "SetMinerBadMinerID"
                ELSE IF is_nan(pd.power) \/ ~InRangeInclusive(pd.power) THEN "BadPowerValue"
                ELSE "Ok"

----------------------------------------------------------------------------
(* SimulationBuilder *)

\* SimulationBuilder::new (the derived Default)
SimulationBuilderNew ==
    [blockchain |-> None, power_dists |-> <<>>, repeat_all |-> None, rounds |-> None,
     miners |-> <<>>, curr_miner_id |-> MinerIdDefault]

\* NonZeroUsize::new
NonZeroNew(n) == IF n = 0 THEN None ELSE Some(n)

\* add_miner without the assert_eq on the id the strategy answers
add_miner_unchecked(b, miner) ==
    [panic |-> FALSE,
     builder |-> [b EXCEPT !.miners = Append(@, set_id(miner, b.curr_miner_id)),
                           !.curr_miner_id = @ + 1]]

\* SimulationBuilder::add_miner: the builder after the call, or the panic of
\* its assert_eq
add_miner(b, miner) ==
    LET m == set_id(miner, b.curr_miner_id)
    IN IF id_of(m) # b.curr_miner_id
       THEN [panic |-> TRUE, builder |-> b]
       ELSE [panic |-> FALSE,
             builder |-> [b EXCEPT !.miners = Append(@, m),
                                   !.curr_miner_id = @ + 1]]

\* SimulationBuilder::blockchain
blockchain(b, c) == [b EXCEPT !.blockchain = Some(c)]

\* SimulationBuilder::repeat_all
repeat_all(b, num) == [b EXCEPT !.repeat_all = NonZeroNew(num)]

\* SimulationBuilder::rounds
rounds(b, n) == [b EXCEPT !.rounds = NonZeroNew(n)]

\* SimulationBuilder::power_dist
power_dist(b, dist) == [b EXCEPT !.power_dists = Append(@, dist)]

\* SimulationBuilder::build
build(b) ==
    IF b.miners = <<>>
    THEN [res |-> "NoMinersGiven"]
    ELSE LET dists == IF b.power_dists = <<>> THEN <<Equal>> ELSE b.power_dists
         IN IF \E i \in DOMAIN dists : validate(dists[i], Len(b.miners)) # "Ok"
            THEN [res |-> "PowerDistributionError"]
            ELSE [res |-> "Ok",
                  blockchain |-> b.blockchain,
                  miners |-> b.miners,
                  power_dists |-> dists,
                  repeat_all |-> unwrap_or(b.repeat_all, 1),
                  rounds |-> unwrap_or(b.rounds, 1)]

----------------------------------------------------------------------------
(* Simulation::run *)

\* blocks_by_miner.entry(miner_id).or_default().push(id)
PushEntry(bbm, miner_id, id) ==
    [k \in DOMAIN bbm \cup {miner_id} |->
        IF k = miner_id
        THEN Append(IF k \in DOMAIN bbm THEN bbm[k] ELSE <<>>, id)
        ELSE bbm[k]]

\* The loop without the assert on the block's miner id
RECURSIVE ApplyBlocks_no_assert(_, _, _, _, _)
ApplyBlocks_no_assert(c, bbm, blocks, i, miner_id) ==
    IF i > Len(blocks)
    THEN [status |-> "ok", res |-> "Ok", chain |-> c, bbm |-> bbm, applied |-> i - 1]
    ELSE LET bbm2 == PushEntry(bbm, miner_id, blocks[i].id)
             r == publish(c, blocks[i])
         IN IF r.res # "Ok"
            THEN [status |-> "error", res |-> r.res, chain |-> r.chain, bbm |-> bbm2,
                  applied |-> i - 1]
            ELSE ApplyBlocks_no_assert(r.chain, bbm2, blocks, i + 1, miner_id)

\* The loop with the publish error dropped instead of returned: the first error
\* is still reported in res, but the loop and the run go on
RECURSIVE ApplyBlocks_ignore_err(_, _, _, _, _)
ApplyBlocks_ignore_err(c, bbm, blocks, i, miner_id) ==
    IF i > Len(blocks)
    THEN [status |-> "ok", res |-> "Ok", chain |-> c, bbm |-> bbm, applied |-> i - 1]
    ELSE IF blocks[i].miner_id # miner_id
    THEN [status |-> "panic", res |-> "Ok", chain |-> c, bbm |-> bbm, applied |-> i - 1]
    ELSE LET bbm2 == PushEntry(bbm, miner_id, blocks[i].id)
             r == publish(c, blocks[i])
         IN IF r.res # "Ok"
            THEN [ApplyBlocks_ignore_err(c, bbm2, blocks, i + 1, miner_id)
                    EXCEPT !.res = r.res, !.applied = i - 1]
            ELSE ApplyBlocks_ignore_err(r.chain, bbm2, blocks, i + 1, miner_id)

\* The loop publishing into a copy of the chain that is then thrown away
RECURSIVE ApplyBlocks_on_copy(_, _, _, _, _)
ApplyBlocks_on_copy(c, bbm, blocks, i, miner_id) ==
    IF i > Len(blocks)
    THEN [status |-> "ok", res |-> "Ok", chain |-> c, bbm |-> bbm, applied |-> i - 1]
    ELSE IF blocks[i].miner_id # miner_id
    THEN [status |-> "panic", res |-> "Ok", chain |-> c, bbm |-> bbm, applied |-> i - 1]
    ELSE LET bbm2 == PushEntry(bbm, miner_id, blocks[i].id)
             r == publish(c, blocks[i])
         IN IF r.res # "Ok"
            THEN [status |-> "error", res |-> r.res, chain |-> c, bbm |-> bbm2,
                  applied |-> i - 1]
            ELSE ApplyBlocks_on_copy(c, bbm2, blocks, i + 1, miner_id)

\* The loop over blocks_published (lines 303-312) from block i on: the assert on
\* the miner id, the entry in blocks_by_miner, the publish call with `?`.
RECURSIVE ApplyBlocks(_, _, _, _, _)
ApplyBlocks(c, bbm, blocks, i, miner_id) ==
    IF i > Len(blocks)
    THEN [status |-> "ok", res |-> "Ok", chain |-> c, bbm |-> bbm, applied |-> i - 1]
    ELSE IF blocks[i].miner_id # miner_id
    THEN [status |-> "panic", res |-> "Ok", chain |-> c, bbm |-> bbm, applied |-> i - 1]
    ELSE LET bbm2 == PushEntry(bbm, miner_id, blocks[i].id)
             r == publish(c, blocks[i])
         IN IF r.res # "Ok"
            THEN [status |-> "error", res |-> r.res, chain |-> r.chain, bbm |-> bbm2,
                  applied |-> i - 1]
            ELSE ApplyBlocks(r.chain, bbm2, blocks, i + 1, miner_id)

\* block_mined offering the round's block to every strategy
block_mined_all(r, miner_id) == Some(r.round)

\* Option: (proposer == miner_id).then_some(BlockId(round))
block_mined(r, miner_id) == IF r.proposer = miner_id THEN Some(r.round) ELSE None

\* The ids an Ancestors iterator yields until it returns None, as a set
RECURSIVE CollectSet(_, _)
CollectSet(c, it) ==
    The({IF IsSome(r.item) THEN {Unwrap(r.item)} \cup CollectSet(c, r.it) ELSE {} :
         r \in {AncestorsNext(c, it)}})

\* SimulationOutput, as built at the end of run (lines 316-327)
SimulationOutput(c, s) ==
    [blocks_by_miner |-> s.blocks_by_miner,
     blocks_published |-> num_blocks(c),
     longest_chain |-> CollectSet(c, longest_chain(c)),
     miners |-> {id_of(s.miners[i]) : i \in DOMAIN s.miners},
     power_dist |-> s.power_dist,
     rounds |-> s.rounds]

----------------------------------------------------------------------------
(* The program: builder calls, build(), run_all(), and one of the runs.    *)
(* The builder is used without a power distribution, so build() installs   *)
(* PowerDistribution::Equal.                                               *)

\* No publish call made by a direct caller yet / no traversal under way
NoCall == [called |-> FALSE]

NoIter == [live |-> FALSE, ended |-> FALSE, via |-> "none", start |-> GENESIS_ID,
           it |-> [curr_id |-> None], out |-> <<>>]

\* No function call set up
NoFn == [fn |-> "none", done |-> FALSE]

NoSim == [blockchain |-> BlockchainNew, miners |-> <<>>, power_dist |-> Equal,
          rounds |-> 0, blocks_by_miner |-> <<>>]
NoRound == [round |-> 0, proposer |-> 0]
NoPoll == [made |-> FALSE]
NoReq == [rounds |-> None, repeat_all |-> None]
NoGroup == [res |-> "none"]
NoPar == [phase |-> "none"]
NoRun == [status |-> "none"]

DriverIdle ==
    /\ builder = SimulationBuilderNew
    /\ req = NoReq
    /\ group = NoGroup
    /\ sim = NoSim
    /\ round = NoRound
    /\ idx = 0
    /\ poll = NoPoll
    /\ round_pub = <<>>
    /\ offers = <<>>
    /\ calls = <<>>
    /\ outcome = None
    /\ par = NoPar
    /\ run = NoRun

Init ==
    /\ chain = BlockchainNew
    /\ order = <<GENESIS_ID>>
    /\ last = NoCall
    /\ anc = NoIter
    /\ call = NoFn
    /\ pc = "building"
    /\ DriverIdle

\* builder.add_miner(miner)
AddMiner(miner) ==
    /\ pc = "building"
    /\ Len(builder.miners) < MaxMiners
    /\ LET r == add_miner(builder, miner)
       IN /\ builder' = r.builder
          /\ pc' = IF r.panic THEN "add_miner_panic" ELSE "building"
    /\ UNCHANGED <<parVars, chainVars, callerVars, req, group, runVars>>

\* builder.blockchain(c)
SetBlockchain(c) ==
    /\ pc = "building"
    /\ builder' = blockchain(builder, c)
    /\ UNCHANGED <<parVars, chainVars, callerVars, pc, req, group, runVars>>

\* builder.rounds(n)
Rounds(n) ==
    /\ pc = "building"
    /\ builder' = rounds(builder, n)
    /\ req' = [req EXCEPT !.rounds = Some(n)]
    /\ UNCHANGED <<parVars, chainVars, callerVars, pc, group, runVars>>

\* builder.repeat_all(n)
RepeatAll(n) ==
    /\ pc = "building"
    /\ builder' = repeat_all(builder, n)
    /\ req' = [req EXCEPT !.repeat_all = Some(n)]
    /\ UNCHANGED <<parVars, chainVars, callerVars, pc, group, runVars>>

\* builder.build()
Build ==
    /\ pc = "building"
    /\ group' = build(builder)
    /\ pc' = "built"
    /\ UNCHANGED <<parVars, chainVars, callerVars, builder, req, runVars>>

\* group.run_all(): the simulations are made (lines 217-229); this is one of
\* them, about to execute run() up to its round loop (lines 275-287).
RunAll ==
    /\ pc = "built"
    /\ group.res = "Ok"
    /\ chain' = unwrap_or(group.blockchain, BlockchainNew)
    /\ order' = IdsByHeight(chain', 0)
    /\ \E k \in DOMAIN group.power_dists :
          sim' = [blockchain |-> chain', miners |-> group.miners,
                  power_dist |-> group.power_dists[k], rounds |-> group.rounds,
                  blocks_by_miner |-> <<>>]
    /\ pc' = "running"
    /\ idx' = Len(group.miners) + 1
    /\ builder' = SimulationBuilderNew
    /\ req' = NoReq
    /\ group' = NoGroup
    /\ UNCHANGED <<parVars, callerVars, round, poll, round_pub, offers, calls, outcome>>

\* The outer loop takes the next (round, proposer) from the sampler (lines 283-289)
NextRound ==
    /\ pc = "running"
    /\ idx > Len(sim.miners)
    /\ round.round < sim.rounds
    /\ \E p \in 1..Len(sim.miners) :
          round' = [round |-> round.round + 1, proposer |-> p]
    /\ idx' = 1
    /\ round_pub' = <<>>
    /\ calls' = <<>>
    /\ UNCHANGED <<parVars, chainVars, callerVars, pc, buildVars, sim, poll, offers, outcome>>

\* One pass of the inner loop (lines 290-313): get_action on the next strategy,
\* then its blocks are published one by one.
Poll ==
    /\ pc = "running"
    /\ idx <= Len(sim.miners)
    /\ LET m == sim.miners[idx]
           miner_id == id_of(m)
           mined == block_mined(round, miner_id)
       IN \E action \in get_action(m, chain, mined, Len(sim.miners)) :
          \E r \in {ApplyBlocks(chain, sim.blocks_by_miner, action.blocks, 1, miner_id)} :
            LET done == SubSeq(action.blocks, 1, r.applied)
                ids == [i \in 1..r.applied |-> action.blocks[i].id]
            IN /\ chain' = r.chain
               /\ order' = order \o ids
               /\ sim' = [sim EXCEPT !.blocks_by_miner = r.bbm]
               /\ round_pub' = round_pub \o ids
               /\ offers' = IF IsSome(mined) THEN Append(offers, Unwrap(mined)) ELSE offers
               /\ calls' = Append(calls, [miner_id |-> miner_id, offered |-> mined])
               /\ poll' = [made |-> TRUE, round |-> round.round, idx |-> idx,
                           miner_id |-> miner_id, offered |-> mined,
                           seen |-> DOMAIN chain.blocks, earlier |-> round_pub,
                           type |-> action.type, returned |-> Len(action.blocks),
                           applied |-> done, status |-> r.status, res |-> r.res]
               /\ pc' = CASE r.status = "ok" -> "running"
                          [] r.status = "error" -> "failed"
                          [] r.status = "panic" -> "panicked"
               /\ idx' = IF r.status = "ok" THEN idx + 1 ELSE idx
               /\ outcome' = IF r.status = "error" THEN Some([err |-> r.res]) ELSE outcome
    /\ UNCHANGED <<parVars, callerVars, buildVars, round>>

\* The sampler is exhausted: run returns Ok(SimulationOutput) (lines 316-327)
Finish ==
    /\ pc = "running"
    /\ idx > Len(sim.miners)
    /\ round.round >= sim.rounds
    /\ outcome' = Some([err |-> "Ok", output |-> SimulationOutput(chain, sim)])
    /\ pc' = "done"
    /\ UNCHANGED <<parVars, chainVars, callerVars, buildVars, sim, round, idx, poll, round_pub,
                   offers, calls>>

\* Strategy objects handed to add_miner: one whose set_id stores the id it is
\* given (its constructor leaves MinerId::default()), and one whose id() keeps
\* answering Blockchain::GENESIS_MINER whatever set_id was given.
MinerObjects == {NewMiner(TRUE, MinerIdDefault), NewMiner(FALSE, GENESIS_MINER)}

\* Chains handed to builder.blockchain: the chain left by an earlier simulation
\* in which the first strategy published block 1 on genesis.
InitialChains ==
    {publish(BlockchainNew, Block(1, Some(GENESIS_ID), MinerIdDefault)).chain}

Next ==
    \/ \E m \in MinerObjects : AddMiner(m)
    \/ \E c \in InitialChains : SetBlockchain(c)
    \/ \E n \in 0..MaxRounds : Rounds(n)
    \/ \E n \in 0..MaxRepeats : RepeatAll(n)
    \/ Build
    \/ RunAll
    \/ NextRound
    \/ Poll
    \/ Finish

Spec == Init /\ [][Next]_vars

----------------------------------------------------------------------------
(* A caller of the chain store: publish calls with arbitrary blocks, and   *)
(* traversals.  An Ancestors iterator borrows the chain, so no publish     *)
(* happens while one is live.                                              *)

\* Miner ids a direct caller puts on its blocks (the chain store never reads them).
CallerMiners == {GENESIS_MINER, 1}

CallerBlocks == [id : BlockIds, parent_id : OptBlockIds, miner_id : CallerMiners]

InitChain ==
    /\ chain = BlockchainNew
    /\ order = <<GENESIS_ID>>
    /\ last = NoCall
    /\ anc = NoIter
    /\ call = NoFn
    /\ pc = "chain"
    /\ DriverIdle

\* chain.publish(block), for any block the caller can build
Publish(block) ==
    /\ ~anc.live
    /\ LET r == publish(chain, block)
       IN /\ chain' = r.chain
          /\ order' = IF r.res = "Ok" THEN Append(order, block.id) ELSE order
          /\ last' = [called |-> TRUE, block |-> block, res |-> r.res]
    /\ anc' = NoIter
    /\ UNCHANGED <<parVars, call, pc, buildVars, runVars>>

\* let it = chain.ancestors_of(id)
AncestorsOf(id) ==
    /\ ~anc.live
    /\ anc' = [live |-> TRUE, ended |-> FALSE, via |-> "ancestors_of", start |-> id,
               it |-> ancestors_of(chain, id), out |-> <<>>]
    /\ last' = NoCall
    /\ UNCHANGED <<parVars, chain, order, call, pc, buildVars, runVars>>

\* let it = chain.longest_chain()
LongestChain ==
    /\ ~anc.live
    /\ anc' = [live |-> TRUE, ended |-> FALSE, via |-> "longest_chain",
               start |-> chain.blocks_by_height[chain.max_height + 1][1],
               it |-> longest_chain(chain), out |-> <<>>]
    /\ last' = NoCall
    /\ UNCHANGED <<parVars, chain, order, call, pc, buildVars, runVars>>

\* it.next(): an item is collected, or None ends the traversal
IterNext ==
    /\ anc.live
    /\ LET r == AncestorsNext(chain, anc.it)
       IN anc' = IF IsSome(r.item)
                 THEN [anc EXCEPT !.it = r.it, !.out = Append(@, Unwrap(r.item))]
                 ELSE [anc EXCEPT !.it = r.it, !.live = FALSE, !.ended = TRUE]
    /\ UNCHANGED <<parVars, chain, order, last, call, pc, buildVars, runVars>>

NextChain ==
    \/ \E b \in CallerBlocks : Publish(b)
    \/ \E id \in BlockIds : AncestorsOf(id)
    \/ LongestChain
    \/ IterNext

SpecChain == InitChain /\ [][NextChain]_vars

----------------------------------------------------------------------------
(* Chain store properties, checked under SpecChain *)

StoredIds == DOMAIN chain.blocks

Height(id) == chain.blocks[id].height

\* How often id occurs in the per-height lists
Occurrences(id) ==
    Cardinality({<<h, k>> \in (DOMAIN chain.blocks_by_height) \X (1..(MaxBlockId + 1)) :
                    /\ k \in DOMAIN chain.blocks_by_height[h]
                    /\ chain.blocks_by_height[h][k] = id})

\* C1: the chain is a tree rooted at genesis: exactly one stored block has id 0,
\* it is the genesis block (no parent, miner 0, height 0) as Blockchain::new made
\* it, and every other stored block is stored under its own id with a parent that
\* is present and has a strictly smaller id.
C1_TreeRootedAtGenesis ==
    /\ Cardinality({k \in StoredIds : chain.blocks[k].block.id = GENESIS_ID}) = 1
    /\ GENESIS_ID \in StoredIds
    /\ chain.blocks[GENESIS_ID].block = Block(GENESIS_ID, None, GENESIS_MINER)
    /\ chain.blocks[GENESIS_ID].height = 0
    /\ Occurrences(GENESIS_ID) = 1
    /\ \A k \in StoredIds \ {GENESIS_ID} :
          LET b == chain.blocks[k].block
          IN /\ b.id = k
             /\ IsSome(b.parent_id)
             /\ Unwrap(b.parent_id) \in StoredIds
             /\ Unwrap(b.parent_id) < k

\* C1 witness: a chain with a fork and a path of length 2, after a rejected
\* attempt to publish a second block with id 0.
C1_Witness ==
    /\ last.called /\ last.res # "Ok" /\ last.block.id = GENESIS_ID
    /\ IsSome(last.block.parent_id)
    /\ Cardinality(StoredIds) = 4
    /\ chain.max_height = 2

\* What publish must return for block b on chain c, stated check by check.
ExpectedResult(c, b, res) ==
    LET dup == b.id \in DOMAIN c.blocks
        nop == b.parent_id = None
        p == Unwrap(b.parent_id)
        missing == ~nop /\ p \notin DOMAIN c.blocks
        notGreater == ~nop /\ ~missing /\ b.id <= p
    IN /\ res \in {"Ok", "DuplicateBlockID", "NoParentGiven", "ParentNotFound",
                   "InvalidParent"}
       /\ (res = "DuplicateBlockID") <=> dup
       /\ (res = "NoParentGiven") <=> (~dup /\ nop)
       /\ (res = "ParentNotFound") <=> (~dup /\ missing)
       /\ (res = "InvalidParent") <=> (~dup /\ notGreater)
       /\ (res = "Ok") <=> (~dup /\ ~nop /\ ~missing /\ ~notGreater)

\* C2: every publish call returns the error of the first failing check in the
\* order duplicate id, missing parent id, parent not in chain, id not greater
\* than parent id, and Ok exactly when all four checks pass.
C2_ChecksInOrder ==
    [][last'.called => ExpectedResult(chain, last'.block, last'.res)]_vars

\* C2 witness: the example of the claim, a block whose id exists and whose
\* parent_id is None, rejected with DuplicateBlockID.
C2_Witness ==
    /\ last.called
    /\ last.block.id \in StoredIds \ {GENESIS_ID}
    /\ last.block.parent_id = None
    /\ last.res = "DuplicateBlockID"

\* The ids accepted at height h, in publication order
PublishedAt(h) == SelectSeq(order, LAMBDA id : Height(id) = h)

NoDuplicates(seq) == \A i, j \in DOMAIN seq : seq[i] = seq[j] => i = j

C3_HeightIndex ==
    /\ NoDuplicates(order)
    /\ {order[i] : i \in DOMAIN order} = StoredIds
    /\ \A id \in StoredIds : Height(id) <= max_height(chain)
    /\ \E id \in StoredIds : Height(id) = max_height(chain)
    /\ \A h \in 0..max_height(chain) :
          /\ at_height(chain, h) = Some(PublishedAt(h))
          /\ PublishedAt(h) # <<>>
    /\ tip(chain) = Unwrap(at_height(chain, max_height(chain)))
    /\ tip(chain) # <<>>
    /\ \A h \in (max_height(chain) + 1)..(MaxBlockId + 2) : at_height(chain, h) = None
    /\ \A id \in StoredIds \ {GENESIS_ID} :
          Height(id) = Height(Unwrap(chain.blocks[id].block.parent_id)) + 1

C3_HeightsKept ==
    \A id \in StoredIds :
        /\ id \in DOMAIN chain'.blocks
        /\ chain'.blocks[id].height = chain.blocks[id].height

\* C3: max_height is the greatest stored height; for every h up to it at_height(h)
\* is the non-empty list of exactly the ids of height h, each once, in publication
\* order; tip() is at_height(max_height); at_height beyond max_height is None; a
\* block's height is its parent's plus one and no later publish changes it.
C3_HeightLists == []C3_HeightIndex /\ [][C3_HeightsKept]_vars

\* C3 witness: two blocks at height 1 published in the order 2, 1 and a block
\* above them.
C3_Witness ==
    /\ max_height(chain) = 2
    /\ at_height(chain, 1) = Some(<<2, 1>>)
    /\ tip(chain) = <<3>>

\* The ids from id back to genesis, following parent ids
IsPathToGenesis(out, id) ==
    /\ Len(out) = Height(id) + 1
    /\ out[1] = id
    /\ out[Len(out)] = GENESIS_ID
    /\ \A i \in 1..(Len(out) - 1) :
          /\ chain.blocks[out[i]].block.parent_id = Some(out[i + 1])
          /\ Height(out[i + 1]) = Height(out[i]) - 1

\* C4: a traversal from a stored id yields height(id)+1 ids and then ends: it
\* starts with id, each next id is the parent of the previous one, the last is
\* genesis; while it runs it has yielded at most height(id)+1 ids and the ids
\* still to come number height(current)+1.  From an id not in the chain it yields
\* nothing.  longest_chain() is the traversal from tip()[0].
C4_AncestorsTerminate ==
    /\ (anc.live /\ anc.start \in StoredIds) =>
          Len(anc.out) + (IF IsSome(anc.it.curr_id)
                          THEN Height(Unwrap(anc.it.curr_id)) + 1 ELSE 0)
            = Height(anc.start) + 1
    /\ (anc.ended /\ anc.start \in StoredIds) => IsPathToGenesis(anc.out, anc.start)
    /\ ((anc.live \/ anc.ended) /\ anc.start \notin StoredIds) =>
          (anc.out = <<>> /\ anc.it.curr_id = None)
    /\ anc.via = "longest_chain" => anc.start = tip(chain)[1]

\* C4 witness: a finished traversal of three blocks, and it is longest_chain()
C4_Witness ==
    /\ anc.ended
    /\ anc.via = "longest_chain"
    /\ Len(anc.out) = 3
    /\ Cardinality(StoredIds) = 4

\* C4 witness for the absent id is reached too
C4_AbsentReached == anc.ended /\ anc.start \notin StoredIds

----------------------------------------------------------------------------
(* Builder and driver properties, checked under Spec *)

NumMiners == Len(sim.miners)

Ids(blocks) == [i \in DOMAIN blocks |-> blocks[i].id]

Range(seq) == {seq[i] : i \in DOMAIN seq}

\* The calls a round makes when nothing cuts it short: every strategy once, in
\* registration order, the proposer alone being offered the round's block id.
FullRound ==
    [k \in 1..NumMiners |->
        [miner_id |-> id_of(sim.miners[k]),
         offered |-> IF id_of(sim.miners[k]) = round.proposer
                     THEN Some(round.round) ELSE None]]

\* No further call will be made in the current round
RoundOver ==
    \/ pc = "running" /\ idx > NumMiners /\ round.round >= 1
    \/ pc \in {"done", "failed", "panicked"}

RunOver == pc \in {"done", "failed", "panicked"}

InRun == pc \in {"running", "done", "failed", "panicked"}

\* C5 as stated: every round 1..=rounds of a run polls every registered strategy
\* exactly once, in registration order, and exactly the proposer is offered
\* Some(BlockId(r)).
C5_EveryRoundPollsAll ==
    /\ RoundOver => calls = FullRound
    /\ RunOver => round.round = sim.rounds

\* C5, amended: the calls of a round are always an initial part of FullRound (so
\* in registration order, at most once each, the proposer alone offered the
\* round's id); a round that no abort cuts short makes all of them, and a run
\* that returns an outcome has done so for every round 1..=rounds; no block id is
\* offered twice and every offered id lies in 1..=rounds.
C5_RoundsPollInOrder ==
    InRun =>
        /\ Len(calls) <= NumMiners
        /\ calls = SubSeq(FullRound, 1, Len(calls))
        /\ (pc = "running" /\ round.round >= 1) => Len(calls) = idx - 1
        /\ (pc \in {"running", "done"} /\ idx > NumMiners /\ round.round >= 1) =>
              /\ calls = FullRound
              /\ Cardinality({k \in DOMAIN calls : IsSome(calls[k].offered)}) = 1
              /\ offers = [r \in 1..round.round |-> r]
        /\ pc = "done" => round.round = sim.rounds
        /\ NoDuplicates(offers)
        /\ Range(offers) \subseteq 1..sim.rounds

\* C5 witness: a run of MaxRounds rounds and MaxMiners strategies has returned
\* its outcome, the last strategy having been the last proposer.
C5_Witness ==
    /\ pc = "done"
    /\ sim.rounds = MaxRounds
    /\ NumMiners = MaxMiners
    /\ round.proposer = MaxMiners
    /\ Len(offers) = MaxRounds

\* C6: the driver applies a strategy's action before it polls the next one: the
\* chain passed to a strategy holds every block published earlier in the round;
\* the blocks the driver got past are stored as returned (parent_id unchanged)
\* and were appended in the given order, all of them when the poll went through.
C6_AppliedBeforeNextPoll ==
    (InRun /\ poll.made) =>
        /\ Range(poll.earlier) \subseteq poll.seen
        /\ \A i \in DOMAIN poll.applied :
              /\ poll.applied[i].id \in DOMAIN chain.blocks
              /\ chain.blocks[poll.applied[i].id].block = poll.applied[i]
              /\ poll.applied[i].id \notin poll.seen
        /\ poll.status = "ok" => Len(poll.applied) = poll.returned
        /\ Len(order) >= Len(poll.applied)
        /\ SubSeq(order, Len(order) - Len(poll.applied) + 1, Len(order)) = Ids(poll.applied)
        /\ \A h \in 0..max_height(chain) : at_height(chain, h) = Some(PublishedAt(h))
        /\ poll.round = round.round =>
              Range(round_pub) = Range(poll.earlier) \cup Range(Ids(poll.applied))

\* C6 witness: the second strategy of a round is polled after the first one
\* published a set of two blocks in that round.
C6_Witness ==
    /\ poll.made
    /\ poll.idx = 2
    /\ Len(poll.earlier) = 2
    /\ poll.status = "ok"

C7_FailedRun ==
    /\ (InRun /\ poll.made /\ poll.res # "Ok") => pc = "failed"
    /\ pc = "failed" =>
          /\ poll.made /\ poll.status = "error"
          /\ poll.res \in {"DuplicateBlockID", "NoParentGiven", "ParentNotFound",
                           "InvalidParent"}
          /\ outcome = Some([err |-> poll.res])
          /\ Len(poll.applied) < poll.returned
          /\ DOMAIN chain.blocks = poll.seen \cup Range(Ids(poll.applied))
          /\ poll.round = round.round /\ poll.idx = idx
          /\ Len(calls) = idx
    /\ (InRun /\ pc # "failed" /\ IsSome(outcome)) =>
          (pc = "done" /\ Unwrap(outcome).err = "Ok")

\* C7: a publish error ends the run at once with that error as its result: the
\* blocks after the failing one are not published, the failing call is the last
\* get_action call, no step follows, and no outcome record is produced.
C7_ErrorEndsRun == []C7_FailedRun /\ [][pc # "failed"]_vars

\* C7 witness: the first strategy of the first round of a longer run returns a
\* set of two blocks; the first is published and the second is rejected.
C7_Witness ==
    /\ pc = "failed"
    /\ poll.type = "PublishSet"
    /\ Len(poll.applied) = 1
    /\ poll.idx < NumMiners
    /\ round.round < sim.rounds

\* The blocks a run started with
InitialIds == DOMAIN sim.blockchain.blocks

\* Block id is listed in blocks_by_miner under miner k, a registered strategy,
\* and (unless a rejected publish ended the run) under no other miner
ReturnedBy(id, k) ==
    /\ \E j \in DOMAIN sim.miners : id_of(sim.miners[j]) = k
    /\ k \in DOMAIN sim.blocks_by_miner
    /\ id \in Range(sim.blocks_by_miner[k])
    /\ pc # "failed" =>
          \A k2 \in DOMAIN sim.blocks_by_miner \ {k} :
              id \notin Range(sim.blocks_by_miner[k2])

\* C8 as stated, its consequence: in every chain of a run each non-genesis
\* block's miner_id is the id of the strategy whose get_action call returned it.
C8_EveryBlockFromItsStrategy ==
    InRun => \A id \in DOMAIN chain.blocks \ {GENESIS_ID} :
                ReturnedBy(id, chain.blocks[id].block.miner_id)

\* C8, amended: a returned block whose miner_id differs from the polled
\* strategy's id is never appended: the driver stops there (the run is aborted,
\* nothing follows, no outcome).  So every block appended during the run carries
\* the id of the strategy whose get_action call returned it; the blocks of the
\* initial chain stay as they were given, whoever their miner_id names.
C8_MinerIdChecked ==
    InRun =>
        /\ \A id \in DOMAIN chain.blocks \ InitialIds :
              ReturnedBy(id, chain.blocks[id].block.miner_id)
        /\ \A id \in InitialIds :
              /\ id \in DOMAIN chain.blocks
              /\ chain.blocks[id].block = sim.blockchain.blocks[id].block
        /\ poll.made =>
              /\ \A i \in DOMAIN poll.applied : poll.applied[i].miner_id = poll.miner_id
              /\ (poll.status = "panic") <=> (pc = "panicked")
        /\ pc = "panicked" =>
              /\ Len(poll.applied) < poll.returned
              /\ DOMAIN chain.blocks = poll.seen \cup Range(Ids(poll.applied))
              /\ outcome = None
              /\ ~ENABLED Next

\* C8 witness: the second block of a set carries another miner's id; the first
\* block was appended, the run is aborted.
C8_Witness ==
    /\ pc = "panicked"
    /\ poll.type = "PublishSet"
    /\ Len(poll.applied) = 1
    /\ Cardinality(DOMAIN chain.blocks) = 3
    /\ Cardinality(InitialIds) = 2

\* The miners of a list carry the ids 1..N in registration order
NumberedFromOne(miners) == \A k \in DOMAIN miners : id_of(miners[k]) = k

\* C9: the k-th strategy added has id k: ids are pairwise distinct, follow the
\* registration order, none is the reserved id 0, and every get_action call is
\* made on a strategy that carries the id of its position.
C9_IdsInRegistrationOrder ==
    /\ NumberedFromOne(builder.miners)
    /\ builder.curr_miner_id = Len(builder.miners) + 1
    /\ group.res = "Ok" => NumberedFromOne(group.miners)
    /\ NumberedFromOne(sim.miners)
    /\ \A ms \in {builder.miners, sim.miners} :
          /\ \A k \in DOMAIN ms : id_of(ms[k]) # GENESIS_MINER
          /\ \A j, k \in DOMAIN ms : id_of(ms[j]) = id_of(ms[k]) => j = k
    /\ (InRun /\ poll.made) => poll.miner_id = poll.idx
    /\ \A k \in DOMAIN calls : calls[k].miner_id = k

\* C9 witness: MaxMiners strategies were added and the last one has been polled.
C9_Witness ==
    /\ pc = "running"
    /\ NumMiners = MaxMiners
    /\ poll.made
    /\ poll.miner_id = MaxMiners

\* C10 as stated: with miners registered, build() fails with ZeroRounds when the
\* last rounds() request was 0 and with ZeroRepeats when the last repeat_all()
\* request was 0; a built group has 1 round (1 repetition) only if rounds
\* (repeat_all) was never called or was called with 1.
C10_ZeroIsRejected ==
    (pc = "built" /\ builder.miners # <<>>) =>
        /\ (req.rounds = Some(0) /\ req.repeat_all # Some(0)) => group.res = "ZeroRounds"
        /\ (req.repeat_all = Some(0) /\ req.rounds # Some(0)) => group.res = "ZeroRepeats"
        /\ (req.rounds = Some(0) /\ req.repeat_all = Some(0)) =>
              group.res \in {"ZeroRounds", "ZeroRepeats"}
        /\ group.res = "Ok" =>
              /\ group.rounds = 1 => req.rounds \in {None, Some(1)}
              /\ group.repeat_all = 1 => req.repeat_all \in {None, Some(1)}

\* C10 witness: rounds(0) was requested of a builder with a miner, and build()
\* returned a group of 1 round.
C10_Witness ==
    /\ pc = "built"
    /\ builder.miners # <<>>
    /\ req.rounds = Some(0)
    /\ builder.rounds = None
    /\ group.res = "Ok"
    /\ group.rounds = 1

----------------------------------------------------------------------------
(* A caller of PowerDistribution::validate *)

\* Longest vector handed to SetValues, and largest miner count handed to validate
MaxDist == 2

\* Power values handed in: NaN, values around 0, a half, values around 1.0
PowerValues == {NaN, -1, 0, 1, 2, One \div 2, One - 2, One - 1, One, One + 1}

Dists == UNION {[1..n -> PowerValues] : n \in 0..MaxDist}

PowerDistributions ==
    {Equal} \cup {SetValues(d) : d \in Dists}
            \cup {SetMiner(id, p) : id \in 0..(MaxDist + 1), p \in {NaN, -1, 0, One, One + 1}}

InitPower ==
    /\ chain = BlockchainNew
    /\ order = <<GENESIS_ID>>
    /\ last = NoCall
    /\ anc = NoIter
    /\ pc = "power"
    /\ DriverIdle
    /\ \E pd \in PowerDistributions, n \in 0..MaxDist :
          call = [fn |-> "validate", done |-> FALSE, pd |-> pd, num_miners |-> n]

\* pd.validate(num_miners)
Validate ==
    /\ pc = "power"
    /\ call.fn = "validate"
    /\ ~call.done
    /\ call' = [fn |-> "validate", done |-> TRUE, pd |-> call.pd,
                num_miners |-> call.num_miners, res |-> validate(call.pd, call.num_miners)]
    /\ UNCHANGED <<parVars, chainVars, last, anc, pc, buildVars, runVars>>

NextPower == Validate

SpecPower == InitPower /\ [][NextPower]_vars

Validated == call.fn = "validate" /\ call.done

\* C11 as stated: validate(n) accepts a SetValues vector exactly when n > 0, it
\* has n entries, every entry lies in the closed interval [0,1] and the entries
\* sum to 1 within EPSILON_POWER; a rejection names an error whose condition
\* holds.
C11_SetValuesClosedInterval ==
    (Validated /\ call.pd.kind = "SetValues") =>
        LET d == call.pd.dist
            n == call.num_miners
            inside == \A i \in DOMAIN d : d[i] # NaN /\ 0 <= d[i] /\ d[i] <= One
            sums == inside /\ Abs(Sum(d) - One) <= EPSILON_POWER
        IN /\ call.res = "Ok" <=> (n > 0 /\ Len(d) = n /\ inside /\ sums)
           /\ call.res = "ZeroMinersGiven" => n = 0
           /\ call.res = "WrongNumMiners" => Len(d) # n
           /\ call.res = "BadPowerValue" => ~inside
           /\ call.res = "BadDistributionSum" => (inside /\ ~sums)
           /\ call.res \in {"Ok", "ZeroMinersGiven", "WrongNumMiners", "BadPowerValue",
                            "BadDistributionSum"}

\* C11 witness: one miner has power exactly 1.0, the other 0.0, over two miners,
\* and validate answers BadPowerValue.
C11_Witness ==
    /\ Validated
    /\ call.pd = SetValues(<<One, 0>>)
    /\ call.num_miners = 2
    /\ call.res = "BadPowerValue"

----------------------------------------------------------------------------
(* A caller of TieBreaker::choose on the chains publish calls can build *)

\* Search depths handed to FavorMinerFork
Depths == 0..2

\* Probabilities handed to FavorMinerProb: 0.0, 0.5, 1.0 and 1.5
Probs == 0..(ProbOne + 1)

\* Tie breakers of tie_breaker.rs and of miner/ties.rs; miner 1 is the favoured one
TieBreakers ==
    {EarliestPublished, FavorMiner(1), Random} \cup {FavorMinerProb(1, p) : p \in Probs}

TiesTieBreakers ==
    {EarliestPublished, FavorMiner(1)} \cup {FavorMinerProb(1, p) : p \in Probs}
                                       \cup {FavorMinerFork(1, d) : d \in Depths}

\* The draws a call can make
Draws(tb) == IF tb.kind = "Random" THEN 0..MaxBlockId ELSE 0..(ProbOne - 1)

InitTies ==
    /\ chain = BlockchainNew
    /\ order = <<GENESIS_ID>>
    /\ last = NoCall
    /\ anc = NoIter
    /\ call = NoFn
    /\ pc = "ties"
    /\ DriverIdle

\* chain.publish(block) by the caller, between choose calls
TiePublish(block) ==
    /\ pc = "ties"
    /\ publish(chain, block).res = "Ok"
    /\ chain' = publish(chain, block).chain
    /\ order' = Append(order, block.id)
    /\ call' = NoFn
    /\ UNCHANGED <<parVars, last, anc, pc, buildVars, runVars>>

\* tb.choose(&chain), tie_breaker.rs
Choose(tb, draw) ==
    /\ pc = "ties"
    /\ call' = [fn |-> "choose", done |-> TRUE, tb |-> tb, draw |-> draw,
                res |-> choose(tb, chain, draw)]
    /\ UNCHANGED <<parVars, chainVars, last, anc, pc, buildVars, runVars>>

\* tb.choose(&chain), miner/ties.rs
TiesChoose(tb, draw) ==
    /\ pc = "ties"
    /\ call' = [fn |-> "ties_choose", done |-> TRUE, tb |-> tb, draw |-> draw,
                res |-> ties_choose(tb, chain, draw)]
    /\ UNCHANGED <<parVars, chainVars, last, anc, pc, buildVars, runVars>>

NextTies ==
    \/ \E b \in CallerBlocks : TiePublish(b)
    \/ \E tb \in TieBreakers : \E d \in Draws(tb) : Choose(tb, d)
    \/ \E tb \in TiesTieBreakers : \E d \in Draws(tb) : TiesChoose(tb, d)

SpecTies == InitTies /\ [][NextTies]_vars

----------------------------------------------------------------------------
(* Tie breaker properties, checked under SpecTies *)

Chosen == call.done /\ call.fn \in {"choose", "ties_choose"}

\* The probability of a FavorMinerProb tie breaker is one: it lies in [0, 1]
ProbabilityGiven == call.tb.kind = "FavorMinerProb" => call.tb.prob \in 0..ProbOne

\* Tip blocks in the order they were published, those by miner and the others
TipBy(miner) == SelectSeq(order, LAMBDA b : b \in Range(tip(chain))
                                           /\ chain.blocks[b].block.miner_id = miner)
TipNotBy(miner) == SelectSeq(order, LAMBDA b : b \in Range(tip(chain))
                                              /\ chain.blocks[b].block.miner_id # miner)
TipInOrder == SelectSeq(order, LAMBDA b : b \in Range(tip(chain)))

ForkChoice(b) ==
    LET miner == call.tb.miner_id
        lowest == IF chain.max_height >= call.tb.depth
                  THEN chain.max_height - call.tb.depth ELSE 0
        mine == {x \in DOMAIN chain.blocks :
                    /\ chain.blocks[x].block.miner_id = miner
                    /\ chain.blocks[x].height \in lowest..chain.max_height}
    IN IF mine = {}
       THEN b = tip(chain)[1]
       ELSE /\ b \in mine
            /\ \A x \in mine : chain.blocks[x].height <= chain.blocks[b].height
            /\ \A x \in mine : chain.blocks[x].height = chain.blocks[b].height =>
                  \E i, j \in DOMAIN order : order[i] = b /\ order[j] = x /\ i <= j

C12_Choice ==
    (Chosen /\ ProbabilityGiven) =>
        /\ IsSome(call.res)
        /\ Unwrap(call.res) \in DOMAIN chain.blocks
        /\ call.tb.kind # "FavorMinerFork" => Unwrap(call.res) \in Range(tip(chain))
        /\ call.tb.kind = "FavorMinerFork" =>
              /\ ForkChoice(Unwrap(call.res))
              /\ call.tb.depth = 0 => Unwrap(call.res) \in Range(tip(chain))
        /\ call.tb.kind = "EarliestPublished" =>
              /\ Unwrap(call.res) = tip(chain)[1]
              /\ Unwrap(call.res) = TipInOrder[1]

----------------------------------------------------------------------------
(* The id of a strategy instance.  The strategy types of src/src/miner.rs  *)
(* and of nsm.rs, selfish.rs, kdeficit.rs, honestforking.rs under          *)
(* src/src/miner keep id: Option<MinerID>; those of src/mining-sim/src and *)
(* ndeficit.rs, noop.rs keep id: MinerId, initially MinerId::default().    *)
(* A call that panics returns None here, a returned id k Some(k).          *)

OptionIdTypes == {"Miner", "NSM", "SelfishOpt", "KDeficit", "HonestForking"}
DefaultIdTypes == {"Honest", "Selfish", "NDeficit", "NDeficitEager", "Noise", "Noop"}

\* new() / default() of each type
StrategyNew(type) ==
    IF type \in OptionIdTypes
    THEN [type |-> type, id_opt |-> None, panicked |-> FALSE]
    ELSE [type |-> type, id |-> MinerIdDefault, panicked |-> FALSE]

\* set_id of each type; Miner::set_id of src/src/miner.rs panics when the id is set
strategy_set_id(m, id) ==
    IF m.type \in OptionIdTypes
    THEN IF m.type = "Miner" /\ IsSome(m.id_opt)
         THEN [m EXCEPT !.panicked = TRUE]
         ELSE [m EXCEPT !.id_opt = Some(id)]
    ELSE [m EXCEPT !.id = id]

\* id() with the unset option read as MinerId::default()
strategy_id_or_default(m) ==
    IF m.type \in OptionIdTypes THEN Some(unwrap_or(m.id_opt, MinerIdDefault)) ELSE Some(m.id)

\* id() of each type: self.id.expect("Miner ID to be set"), or self.id
strategy_id(m) ==
    IF m.type \in OptionIdTypes THEN m.id_opt ELSE Some(m.id)

\* Ids handed to set_id
SetIdArgs == 1..(MaxMiners + 1)

InitId ==
    /\ chain = BlockchainNew
    /\ order = <<GENESIS_ID>>
    /\ last = NoCall
    /\ anc = NoIter
    /\ pc = "id"
    /\ DriverIdle
    /\ \E type \in OptionIdTypes \cup DefaultIdTypes :
          call = [fn |-> "id", done |-> FALSE, obj |-> StrategyNew(type), set_ids |-> <<>>]

\* obj.set_id(id)
CallSetId(id) ==
    /\ pc = "id"
    /\ call.fn = "id"
    /\ ~call.obj.panicked
    /\ Len(call.set_ids) < MaxMiners
    /\ call' = [fn |-> "id", done |-> FALSE, obj |-> strategy_set_id(call.obj, id),
                set_ids |-> Append(call.set_ids, id)]
    /\ UNCHANGED <<parVars, chainVars, last, anc, pc, buildVars, runVars>>

\* obj.id()
CallId ==
    /\ pc = "id"
    /\ call.fn = "id"
    /\ ~call.obj.panicked
    /\ ~call.done
    /\ call' = [fn |-> "id", done |-> TRUE, obj |-> call.obj, set_ids |-> call.set_ids,
                res |-> strategy_id(call.obj)]
    /\ UNCHANGED <<parVars, chainVars, last, anc, pc, buildVars, runVars>>

NextId ==
    \/ \E id \in SetIdArgs : CallSetId(id)
    \/ CallId

SpecId == InitId /\ [][NextId]_vars

IdCalled == call.fn = "id" /\ call.done

----------------------------------------------------------------------------
(* Simulation::run as a function of the random draws it makes.  The state  *)
(* of a run is a record: the chain and the simulation (strategies,         *)
(* blocks_by_miner) it owns, the pair the sampler produced last, the next  *)
(* strategy to poll, and what run() returned once it has.                  *)

\* PowerDistribution::values_unchecked
values_unchecked(pd, num_miners) ==
    CASE pd.kind = "Equal" -> [k \in 1..num_miners |-> One \div num_miners]
      [] pd.kind = "SetValues" -> pd.dist
      [] pd.kind = "SetMiner" ->
           [k \in 1..num_miners |->
               IF k = pd.miner_id THEN pd.power
               ELSE (One - pd.power) \div (num_miners - 1)]

\* WeightedIndex::new
WeightedIndexNew(weights) ==
    IF weights = <<>> THEN "NoItem"
    ELSE IF \E k \in DOMAIN weights : weights[k] = NaN \/ weights[k] < 0
    THEN "InvalidWeight"
    ELSE IF Sum(weights) = 0 THEN "AllWeightsZero"
    ELSE "Ok"

\* The proposers the sampler can produce: the indices of positive weight
Proposers(pd, num_miners) ==
    {k \in 1..num_miners : values_unchecked(pd, num_miners)[k] > 0}

\* The draws the tie breaker of a strategy makes in one call of choose
DrawsMade(m) ==
    IF m.kind = "Noop" THEN {0}
    ELSE IF m.kind = "HonestForking"
    THEN (IF m.tie_breaker.kind \in {"Random", "FavorMinerProb"}
          THEN 0..(ProbOne * ProbOne - 1)
          ELSE 0..(ProbOne - 1))
    ELSE IF m.tie_breaker.kind \in {"Random", "FavorMinerProb"}
    THEN 0..(ProbOne - 1)
    ELSE {0}

\* run() up to its round loop (lines 275-287)
RunStart(s) ==
    LET w == WeightedIndexNew(values_unchecked(s.power_dist, Len(s.miners)))
    IN [chain |-> s.blockchain,
        sim |-> [miners |-> s.miners, power_dist |-> s.power_dist, rounds |-> s.rounds,
                 blocks_by_miner |-> <<>>],
        round |-> NoRound,
        idx |-> Len(s.miners) + 1,
        status |-> IF w = "Ok" THEN "running" ELSE "failed",
        outcome |-> IF w = "Ok" THEN None ELSE Some([err |-> "WeightedIndexError"])]

\* The outer loop with a sampler that stops following its draws once a run of
\* the group has finished
RunNextRound_shared_rng(r, proposer) ==
    [r EXCEPT !.round = [round |-> r.round.round + 1,
                         proposer |-> IF par.phase = "running" /\ par.finished # <<>>
                                      THEN 1 ELSE proposer],
              !.idx = 1]

\* The outer loop takes (round, proposer) from the sampler (lines 283-289)
RunNextRound(r, proposer) ==
    [r EXCEPT !.round = [round |-> r.round.round + 1, proposer |-> proposer],
              !.idx = 1]

\* One pass of the inner loop (lines 290-313) on the next strategy
RunPoll(r, draw) ==
    LET m == r.sim.miners[r.idx]
        miner_id == id_of(m)
        Published(g, a) ==
            [r EXCEPT !.chain = a.chain,
                      !.sim.blocks_by_miner = a.bbm,
                      !.sim.miners[r.idx] = g.miner,
                      !.idx = IF a.status = "ok" THEN r.idx + 1 ELSE r.idx,
                      !.status = CASE a.status = "ok" -> "running"
                                   [] a.status = "error" -> "failed"
                                   [] a.status = "panic" -> "panicked",
                      !.outcome =
                          CASE a.status = "ok" -> None
                            [] a.status = "error" -> Some([err |-> a.res])
                            [] a.status = "panic" -> Some([panic |-> "assert_eq"])]
    IN The({IF g.action.type = "Panic"
            THEN [r EXCEPT !.status = "panicked",
                           !.outcome = Some([panic |-> g.action.why])]
            ELSE The({Published(g, a) :
                      a \in {ApplyBlocks(r.chain, r.sim.blocks_by_miner, g.action.blocks,
                                         1, miner_id)}}) :
            g \in {strategy_get_action(m, r.chain, block_mined(r.round, miner_id),
                                       draw)}})

\* The sampler is exhausted: run returns Ok(SimulationOutput) (lines 316-327)
RunFinish(r) ==
    [r EXCEPT !.status = "done",
              !.outcome = Some([err |-> "Ok", output |-> SimulationOutput(r.chain, r.sim)])]

\* The inner loop from the next strategy on.  Of the built-in strategies only
\* the one that mined the round's block can make a draw in its tie breaker:
\* Honest and Selfish call choose on a mined block only, and the tie breaker
\* of NDeficit, FavorMiner, makes none.
RECURSIVE RunPolls(_, _)
RunPolls(r, draw) ==
    IF r.status # "running" \/ r.idx > Len(r.sim.miners) THEN r
    ELSE The({RunPolls(next, draw) : next \in {RunPoll(r, draw)}})

\* One round of the outer loop (lines 289-314)
RunRound(r, d) ==
    The({RunPolls(next, d.tie) : next \in {RunNextRound(r, d.proposer)}})

\* The next step of a run: a round while the sampler has one, then the return
RunStep(r, d) ==
    IF r.round.round < r.sim.rounds THEN RunRound(r, d) ELSE RunFinish(r)

\* The draws the next step of a run can make
StepDraws(r) ==
    IF r.round.round < r.sim.rounds
    THEN UNION {{[proposer |-> p, tie |-> t] : t \in DrawsMade(r.sim.miners[p])} :
                   p \in Proposers(r.sim.power_dist, Len(r.sim.miners))}
    ELSE {[proposer |-> 0, tie |-> 0]}

\* A run executed alone from r on, with the draws given
RECURSIVE Replay(_, _)
Replay(r, draws) ==
    IF draws = <<>> \/ r.status # "running" THEN r
    ELSE The({Replay(next, Tail(draws)) : next \in {RunStep(r, draws[1])}})

----------------------------------------------------------------------------
(* SimulationGroup::run_all.  The chains and the strategy vectors live in  *)
(* a memory of cells, so that a clone is a new cell holding a copy: cell 0 *)
(* holds the chain and the strategies of the group, cell k those of the    *)
(* k-th simulation.  A worker thread of the pool takes a simulation and    *)
(* executes run() on it to the end before it takes another.                *)

\* Worker threads of the rayon pool
Workers == 2

\* Rounds of the simulations of a group
ParRounds == 2

\* A copy that shares the cell of the original
clone_shared(cell, fresh) == cell

\* blockchain.clone() / miners.clone(): the cell of the copy
clone(cell, fresh) == fresh

\* The simulations made by run_all (lines 219-229): for each distribution
\* repeat_all simulations, each with its own copies
MakeSims(g) ==
    [k \in 1..(Len(g.power_dists) * g.repeat_all) |->
        [blockchain |-> clone(0, k), miners |-> clone(0, k),
         power_dist |-> g.power_dists[((k - 1) \div g.repeat_all) + 1],
         rounds |-> g.rounds]]

\* The state of the k-th run: its chain and strategies are read from its cells
RunOf(k) ==
    [par.runs[k] EXCEPT !.chain = par.chains[par.sims[k].blockchain],
                        !.sim.miners = par.strategies[par.sims[k].miners]]

\* The k-th simulation as run() receives it
SimOf(k) ==
    [blockchain |-> par.chains[par.sims[k].blockchain],
     miners |-> par.strategies[par.sims[k].miners],
     power_dist |-> par.sims[k].power_dist,
     rounds |-> par.sims[k].rounds]

Pending == [status |-> "pending"]

InProgress == {k \in DOMAIN par.runs : par.runs[k].status = "running"}

\* outputs in the order the runs finished in
CollectAsFinished(runs, finished) ==
    [k \in DOMAIN finished |-> Unwrap(runs[finished[k]].outcome).output]

\* outputs in the order of the simulations (the indexed collect of line 231)
CollectOutputs(runs, finished) ==
    [k \in DOMAIN runs |-> Unwrap(runs[k].outcome).output]

\* ResultsBuilder::new, ResultsBuilder::data
ResultsBuilderNew(data, repeat) == [data |-> data, repeat_all |-> repeat]

\* A chain given to the builder: the one an earlier simulation left, block 1 in it
UsedChain == CHOOSE c \in InitialChains : TRUE

\* The builder calls a group is made by: strategies, chain, power
\* distributions, repeat_all, rounds
ParConfigs ==
    {[miners |-> <<HonestNew, SelfishNew>>, chain |-> None,
      dists |-> <<SetMiner(1, One), Equal>>, repeat_all |-> MaxRepeats,
      rounds |-> 1],
     [miners |-> <<HonestWithTieBreaker(Random), SelfishNew>>, chain |-> None,
      dists |-> <<>>, repeat_all |-> 2, rounds |-> ParRounds + 1],
     [miners |-> <<SelfishNew, HonestNew>>, chain |-> Some(UsedChain),
      dists |-> <<Equal, SetMiner(2, One)>>, repeat_all |-> 1, rounds |-> ParRounds],
     [miners |-> <<NDeficitNew(1), HonestNew>>, chain |-> None,
      dists |-> <<>>, repeat_all |-> 2, rounds |-> ParRounds + 1],
     [miners |-> <<HonestWithTieBreaker(FavorMinerProb(2, ProbOne + 1)), HonestNew>>,
      chain |-> None, dists |-> <<Equal>>, repeat_all |-> 1, rounds |-> ParRounds]}

RECURSIVE AddMiners(_, _)
AddMiners(b, miners) ==
    IF miners = <<>> THEN b
    ELSE AddMiners(add_miner(b, miners[1]).builder, Tail(miners))

RECURSIVE AddDists(_, _)
AddDists(b, dists) ==
    IF dists = <<>> THEN b ELSE AddDists(power_dist(b, dists[1]), Tail(dists))

\* The group build() returns for the builder calls made
GroupOf(miners, c, dists, repeat, n) ==
    LET b0 == AddDists(AddMiners(SimulationBuilderNew, miners), dists)
        b1 == IF IsSome(c) THEN blockchain(b0, Unwrap(c)) ELSE b0
    IN build(rounds(repeat_all(b1, repeat), n))

InitPar ==
    /\ chain = BlockchainNew
    /\ order = <<GENESIS_ID>>
    /\ last = NoCall
    /\ anc = NoIter
    /\ call = NoFn
    /\ pc = "par"
    /\ builder = SimulationBuilderNew
    /\ req = NoReq
    /\ group = NoGroup
    /\ sim = NoSim
    /\ round = NoRound
    /\ idx = 0
    /\ poll = NoPoll
    /\ round_pub = <<>>
    /\ offers = <<>>
    /\ calls = <<>>
    /\ outcome = None
    /\ run = NoRun
    /\ \E cfg \in ParConfigs :
          par = [phase |-> "group",
                 given |-> cfg.dists,
                 group |-> GroupOf(cfg.miners, cfg.chain, cfg.dists, cfg.repeat_all,
                                   cfg.rounds)]

\* group.run_all() up to the parallel iterator (lines 208-229)
ParRunAll ==
    /\ pc = "par"
    /\ par.phase = "group"
    /\ par.group.res = "Ok"
    /\ LET sims == MakeSims(par.group)
           cells == {0} \cup {sims[k].blockchain : k \in DOMAIN sims}
                        \cup {sims[k].miners : k \in DOMAIN sims}
       IN par' = [phase |-> "running",
                  given |-> par.given,
                  group |-> par.group,
                  chains |-> [a \in cells |-> unwrap_or(par.group.blockchain, BlockchainNew)],
                  strategies |-> [a \in cells |-> par.group.miners],
                  sims |-> sims,
                  runs |-> [k \in DOMAIN sims |-> Pending],
                  draws |-> [k \in DOMAIN sims |-> <<>>],
                  finished |-> <<>>,
                  result |-> None]
    /\ UNCHANGED <<chainVars, callerVars, pc, buildVars, runVars, run>>

\* The memory and the runs after the k-th run has become r
Written(k, r) ==
    [par EXCEPT !.chains[par.sims[k].blockchain] = r.chain,
                !.strategies[par.sims[k].miners] = r.sim.miners,
                !.runs[k] = r,
                !.finished = IF r.status # "running" THEN Append(@, k) ELSE @]

\* A worker thread takes the k-th simulation and enters run()
ParStart(k) ==
    /\ pc = "par"
    /\ par.phase = "running"
    /\ par.runs[k] = Pending
    /\ Cardinality(InProgress) < Workers
    /\ \E r \in {RunStart(SimOf(k))} : par' = Written(k, r)
    /\ UNCHANGED <<chainVars, callerVars, pc, buildVars, runVars, run>>

\* The thread of the k-th run executes the next round, or returns from run()
ParStep(k) ==
    /\ pc = "par"
    /\ par.phase = "running"
    /\ par.runs[k].status = "running"
    /\ \E r \in {RunOf(k)} :
       \E d \in StepDraws(r) :
       \E next \in {RunStep(r, d)} :
          par' = [Written(k, next) EXCEPT !.draws[k] = Append(@, d)]
    /\ UNCHANGED <<chainVars, callerVars, pc, buildVars, runVars, run>>

\* Every run has returned Ok: the outputs are collected and handed to
\* ResultsBuilder::new (lines 231-234)
ParCollect ==
    /\ pc = "par"
    /\ par.phase = "running"
    /\ \A k \in DOMAIN par.runs : par.runs[k].status = "done"
    /\ par' = [par EXCEPT
                 !.phase = "collected",
                 !.result = Some([err |-> "Ok",
                                  results |-> ResultsBuilderNew(
                                      CollectOutputs(par.runs, par.finished),
                                      par.group.repeat_all)])]
    /\ UNCHANGED <<chainVars, callerVars, pc, buildVars, runVars, run>>

\* A run has returned an error and no thread is inside run(): the collect
\* yields an error of one of the failed runs, simulations not yet taken are
\* dropped, and run_all returns the error (`outputs?`)
ParFail ==
    /\ pc = "par"
    /\ par.phase = "running"
    /\ InProgress = {}
    /\ \A k \in DOMAIN par.runs : par.runs[k].status # "panicked"
    /\ \E k \in DOMAIN par.runs :
          /\ par.runs[k].status = "failed"
          /\ par' = [par EXCEPT !.phase = "failed", !.result = par.runs[k].outcome]
    /\ UNCHANGED <<chainVars, callerVars, pc, buildVars, runVars, run>>

\* A run has panicked and no thread is inside run(): the panic is resumed in
\* the thread that called run_all
ParPanic ==
    /\ pc = "par"
    /\ par.phase = "running"
    /\ InProgress = {}
    /\ \E k \in DOMAIN par.runs : par.runs[k].status = "panicked"
    /\ par' = [par EXCEPT !.phase = "panicked"]
    /\ UNCHANGED <<chainVars, callerVars, pc, buildVars, runVars, run>>

\* The indices of the simulations, once they are made
ParIndices == IF par.phase = "running" THEN DOMAIN par.runs ELSE {}

NextPar ==
    \/ ParRunAll
    \/ \E k \in ParIndices : ParStart(k)
    \/ \E k \in ParIndices : ParStep(k)
    \/ ParCollect
    \/ ParFail
    \/ ParPanic

SpecPar == InitPar /\ [][NextPar]_vars

----------------------------------------------------------------------------
(* One run of built-in strategies, taken one get_action call at a time:    *)
(* Honest miners with one Selfish or one NDeficit(i) miner, in every       *)
(* registration order, and two Selfish miners with an Honest one.  The     *)
(* calls made on the last strategy that is not Honest are recorded; in a   *)
(* run of Honest miners only, the calls made on each of them.              *)

\* Rounds of the run
StratRounds == 7

\* Largest deficit tolerance i of NDeficit::new(i)
MaxDeficit == 3

\* The strategies registered, in order
StratLineups ==
    {<<HonestNew, SelfishNew>>, <<SelfishNew, HonestNew>>,
     <<HonestNew, SelfishNew, HonestNew>>, <<SelfishNew, SelfishNew, HonestNew>>}
    \cup UNION {{<<NDeficitNew(i), HonestNew>>, <<HonestNew, NDeficitNew(i)>>,
                 <<HonestNew, NDeficitNew(i), HonestNew>>} : i \in 0..MaxDeficit}

\* Honest miners only, with each kind of tie breaker
HonestLineups ==
    {<<HonestNew>>,
     <<HonestNew, HonestWithTieBreaker(Random)>>,
     <<HonestWithTieBreaker(FavorMiner(2)), HonestNew,
       HonestWithTieBreaker(FavorMinerProb(1, 1))>>,
     <<HonestNew, HonestWithTieBreaker(FavorMinerProb(1, ProbOne + 1))>>}

\* The position of the last strategy that is not Honest, 0 if there is none
Watched(miners) ==
    LET others == {k \in DOMAIN miners : miners[k].kind # "Honest"}
    IN IF others = {} THEN 0 ELSE CHOOSE k \in others : \A j \in others : j <= k

\* What a get_action call on strategy m found and did: the chain and the
\* strategy before it, the block offered, the state map_state was given (for
\* NDeficit: the strategy as update_state left it), the action and the
\* strategy after it
CallRecord(r, m, offered, g) ==
    [round |-> r.round.round,
     chain |-> r.chain,
     before |-> m,
     offered |-> offered,
     found |-> IF /\ m.kind \in {"NDeficit", "NDeficitEager"}
                  /\ ~(m.kind = "NDeficitEager" /\ ForkCase(m, r.chain, offered))
                  /\ update_state(m, r.chain, offered, 0).panic = ""
               THEN update_state(m, r.chain, offered, 0).miner
               ELSE m,
     action |-> g.action,
     after |-> g.miner]

\* The rest of the program is idle during a run() of a lineup
StratIdle ==
    /\ chain = BlockchainNew
    /\ order = <<GENESIS_ID>>
    /\ last = NoCall
    /\ anc = NoIter
    /\ call = NoFn
    /\ pc = "strat"
    /\ builder = SimulationBuilderNew
    /\ req = NoReq
    /\ group = NoGroup
    /\ sim = NoSim
    /\ round = NoRound
    /\ idx = 0
    /\ poll = NoPoll
    /\ round_pub = <<>>
    /\ offers = <<>>
    /\ calls = <<>>
    /\ outcome = None
    /\ par = NoPar

\* A run() of the strategies miners for n rounds, the calls of the
\* strategy at position watch recorded (of all strategies if watch = 0)
StratRun(miners, watch, n) ==
    The({[status |-> "strat",
          r |-> RunStart([blockchain |-> BlockchainNew, miners |-> g.miners,
                          power_dist |-> g.power_dists[1], rounds |-> g.rounds]),
          watch |-> watch,
          calls |-> <<>>] :
         g \in {GroupOf(miners, None, <<>>, 1, n)}})

\* The program is in a run() of the strategies of one of the lineups
StratStart(lineups) ==
    /\ StratIdle
    /\ \E miners \in lineups : run = StratRun(miners, Watched(miners), StratRounds)

InitStrat == StratStart(StratLineups)

InitHonest == StratStart(HonestLineups)

\* The outer loop takes the next (round, proposer) from the sampler
StratNextRound ==
    /\ pc = "strat"
    /\ run.r.status = "running"
    /\ run.r.idx > Len(run.r.sim.miners)
    /\ run.r.round.round < run.r.sim.rounds
    /\ \E p \in Proposers(run.r.sim.power_dist, Len(run.r.sim.miners)) :
          run' = [run EXCEPT !.r = RunNextRound(run.r, p)]
    /\ UNCHANGED <<chainVars, callerVars, pc, buildVars, runVars, par>>

\* One pass of the inner loop: get_action on the next strategy, its blocks
\* published
StratPoll ==
    /\ pc = "strat"
    /\ run.r.status = "running"
    /\ run.r.idx <= Len(run.r.sim.miners)
    /\ \E m \in {run.r.sim.miners[run.r.idx]} :
       \E offered \in {block_mined(run.r.round, id_of(m))} :
       \E draw \in DrawsMade(m) :
       \E g \in {strategy_get_action(m, run.r.chain, offered, draw)} :
       \E next \in {RunPoll(run.r, draw)} :
          run' = [run EXCEPT
                    !.r = next,
                    !.calls = IF run.watch \in {0, run.r.idx}
                              THEN Append(@, CallRecord(run.r, m, offered, g))
                              ELSE @]
    /\ UNCHANGED <<chainVars, callerVars, pc, buildVars, runVars, par>>

\* The sampler is exhausted: run returns
StratFinish ==
    /\ pc = "strat"
    /\ run.r.status = "running"
    /\ run.r.idx > Len(run.r.sim.miners)
    /\ run.r.round.round >= run.r.sim.rounds
    /\ run' = [run EXCEPT !.r = RunFinish(run.r)]
    /\ UNCHANGED <<chainVars, callerVars, pc, buildVars, runVars, par>>

NextStrat ==
    \/ StratNextRound
    \/ StratPoll
    \/ StratFinish

SpecStrat == InitStrat /\ [][NextStrat]_vars

SpecHonest == InitHonest /\ [][NextStrat]_vars

\* Runs of mixes of the built-in strategies
MixRounds == 6

\* Lineups that mix the built-in strategies, each with the position of the
\* strategy whose calls are recorded
MixLineups ==
    UNION {{[miners |-> <<NDeficitNew(i), HonestNew, SelfishNew>>, watch |-> 1],
            [miners |-> <<SelfishNew, NDeficitNew(i)>>, watch |-> 1],
            [miners |-> <<SelfishNew, NDeficitNew(i)>>, watch |-> 2],
            [miners |-> <<HonestForkingNew(1), NDeficitEagerNew(i)>>, watch |-> 2],
            [miners |-> <<NDeficitEagerNew(i), HonestNew>>, watch |-> 1],
            [miners |-> <<HonestNew, NDeficitEagerNew(i)>>, watch |-> 2],
            [miners |-> <<HonestForkingNew(1), NDeficitNew(i)>>, watch |-> 2]} :
           i \in 0..MaxDeficit}
    \cup {[miners |-> <<HonestForkingNew(1), SelfishNew>>, watch |-> 2],
          [miners |-> <<NoopNew, SelfishNew, HonestNew>>, watch |-> 2],
          [miners |-> <<SelfishNew, NDeficitEagerNew(1), HonestForkingNew(ProbOne)>>,
           watch |-> 1],
          [miners |-> <<SelfishNew, NDeficitEagerNew(1), HonestForkingNew(ProbOne)>>,
           watch |-> 2],
          [miners |-> <<NDeficitNew(1), NDeficitNew(2)>>, watch |-> 1],
          [miners |-> <<HonestForkingNew(0), NoopNew>>, watch |-> 0]}

InitMix ==
    /\ StratIdle
    /\ \E l \in MixLineups : run = StratRun(l.miners, l.watch, MixRounds)

SpecMix == InitMix /\ [][NextStrat]_vars

----------------------------------------------------------------------------
(* Runs in which, from some round on, the Honest miner is the proposer of  *)
(* every round.  The sampler's draws are free for at most FreeRounds       *)
(* rounds; run.tail_from is the first round of the rounds that all go to   *)
(* the Honest miner, 0 while the draws are free.                           *)

FreeRounds == 4

\* Rounds enough after the free ones for the honest chain to pass a hidden
\* queue of FreeRounds blocks and a tolerance of MaxDeficit
TailRounds == FreeRounds + MaxDeficit + 2

\* One Honest miner and one Selfish or NDeficit miner, in either order
TailLineups ==
    {<<HonestNew, SelfishNew>>, <<SelfishNew, HonestNew>>}
    \cup UNION {{<<NDeficitNew(i), HonestNew>>, <<HonestNew, NDeficitNew(i)>>} :
                i \in 0..MaxDeficit}

\* The position of the Honest miner of the run
HonestPos == CHOOSE j \in DOMAIN run.r.sim.miners : run.r.sim.miners[j].kind = "Honest"

InitTail ==
    /\ StratIdle
    /\ \E miners \in TailLineups :
       \E s \in {StratRun(miners, Watched(miners), FreeRounds + TailRounds)} :
          run = [status |-> s.status, r |-> s.r, watch |-> s.watch, calls |-> s.calls,
                 tail_from |-> 0]

\* The outer loop takes the next (round, proposer) from the sampler, any
\* proposer
FreeRound ==
    /\ pc = "strat"
    /\ run.r.status = "running"
    /\ run.r.idx > Len(run.r.sim.miners)
    /\ run.tail_from = 0
    /\ run.r.round.round < FreeRounds
    /\ \E p \in Proposers(run.r.sim.power_dist, Len(run.r.sim.miners)) :
          run' = [run EXCEPT !.r = RunNextRound(run.r, p)]
    /\ UNCHANGED <<chainVars, callerVars, pc, buildVars, runVars, par>>

\* The outer loop takes the next (round, proposer) from the sampler: the
\* Honest miner, in this round and in all that follow
HonestRound ==
    /\ pc = "strat"
    /\ run.r.status = "running"
    /\ run.r.idx > Len(run.r.sim.miners)
    /\ run.r.round.round < run.r.sim.rounds
    /\ HonestPos \in Proposers(run.r.sim.power_dist, Len(run.r.sim.miners))
    /\ run' = [run EXCEPT !.r = RunNextRound(run.r, HonestPos),
                          !.tail_from = IF @ = 0 THEN run.r.round.round + 1 ELSE @]
    /\ UNCHANGED <<chainVars, callerVars, pc, buildVars, runVars, par>>

NextTail ==
    \/ FreeRound
    \/ HonestRound
    \/ StratPoll
    \/ StratFinish

\* run() is one sequential loop: it takes its next step until it returns
SpecTail == InitTail /\ [][NextTail]_vars /\ WF_vars(NextTail)

----------------------------------------------------------------------------
(* Properties of run_all, checked under SpecPar *)

\* The simulations have been made
Made == par.phase \in {"running", "collected", "failed", "panicked"}

Started(k) == par.runs[k] # Pending

\* The k-th simulation as made of the group, before any run has touched it
TemplateSim(k) ==
    [blockchain |-> unwrap_or(par.group.blockchain, BlockchainNew),
     miners |-> par.group.miners,
     power_dist |-> par.sims[k].power_dist,
     rounds |-> par.group.rounds]

\* C15: runs executed in parallel do not interfere.  Whatever the interleaving
\* of the rounds of the runs, the chain, the strategies and the outcome of
\* every run are those of that run executed alone on a copy of the group's
\* chain and strategies with the draws it made; and the chain and the
\* strategies of the group stay as build() left them.
C15_RunsDoNotInterfere ==
    Made =>
        /\ par.chains[0] = unwrap_or(par.group.blockchain, BlockchainNew)
        /\ par.strategies[0] = par.group.miners
        /\ \A k \in DOMAIN par.runs :
              Started(k) => RunOf(k) = Replay(RunStart(TemplateSim(k)), par.draws[k])

\* Two runs are inside their round loops at once, each with a round behind it,
\* and their chains have come apart
C15_Witness ==
    /\ par.phase = "running"
    /\ \E j, k \in DOMAIN par.runs :
          /\ j # k
          /\ par.runs[j].status = "running" /\ par.runs[k].status = "running"
          /\ par.runs[j].round.round >= 1 /\ par.runs[k].round.round >= 1
          /\ RunOf(j).chain # RunOf(k).chain
          /\ num_blocks(RunOf(j).chain) > 1

\* The power distributions of the group, as the builder was given them
Given == IF par.given = <<>> THEN <<Equal>> ELSE par.given

\* C16: when run_all succeeds its output list has (number of distributions) x
\* repeat_all entries; entries k*repeat_all .. (k+1)*repeat_all - 1 are outputs
\* of runs of the k-th distribution given to the builder, whatever order the
\* runs finished in; and the results builder receives the list only when
\* every run has returned.
C16_OutputsInOrder ==
    (Made /\ IsSome(par.result) /\ Unwrap(par.result).err = "Ok") =>
        LET data == Unwrap(par.result).results.data
            repeat == par.group.repeat_all
        IN /\ Len(data) = Len(Given) * repeat
           /\ \A k \in 0..(Len(Given) - 1) :
              \A i \in (k * repeat + 1)..((k + 1) * repeat) :
                 /\ data[i].power_dist = Given[k + 1]
                 /\ par.runs[i].status = "done"
                 /\ data[i] = Unwrap(par.runs[i].outcome).output
           /\ \A i \in DOMAIN par.runs : par.runs[i].status = "done"

\* run_all has succeeded on two distributions with repetitions, and the runs
\* did not finish in the order of the list
C16_Witness ==
    /\ par.phase = "collected"
    /\ Len(Given) = 2 /\ Given[1] # Given[2]
    /\ par.group.repeat_all >= 2
    /\ par.finished[1] = Len(par.runs)
    /\ Unwrap(par.result).results.data[1] # Unwrap(par.result).results.data[Len(par.runs)]

ChosenSecond(c) ==
    \E b \in DOMAIN c.blocks :
        /\ b # GENESIS_ID
        /\ LET at == c.blocks_by_height[c.blocks[b].height]
           IN Len(at) >= 2 /\ c.blocks[b].block.parent_id = Some(at[2])

----------------------------------------------------------------------------
(* Properties of the built-in strategies, checked under SpecStrat *)

\* The run watches a strategy of the given type
Watching(kind) == pc = "strat" /\ run.r.sim.miners[run.watch].kind = kind

WatchedId == id_of(run.r.sim.miners[run.watch])

\* Blocks of chain c that the watched strategy did not mine
ByOthers(c) == {b \in DOMAIN c.blocks : c.blocks[b].block.miner_id # WatchedId}

\* A fork is visible at the tip of c: a block of the watched strategy and a
\* block of another miner are both at the maximal height
ForkAtTip(c) == AnyBy(c, tip(c), WatchedId) /\ AnyNotBy(c, tip(c), WatchedId)

\* Calls k and k + 1 are made in two consecutive rounds in which the watched
\* strategy is the proposer, the first on an empty hidden queue, and no other
\* miner has published a block between them
TwoRoundsAlone(k) ==
    /\ k + 1 \in DOMAIN run.calls
    /\ run.calls[k].before.hidden_blocks = <<>>
    /\ IsSome(run.calls[k].offered)
    /\ IsSome(run.calls[k + 1].offered)
    /\ ByOthers(run.calls[k + 1].chain) = ByOthers(run.calls[k].chain)

\* Both calls return Wait and the two blocks are hidden, in mining order
BothHidden(k) ==
    /\ run.calls[k].action = Wait
    /\ run.calls[k + 1].action = Wait
    /\ LET hidden == run.calls[k + 1].after.hidden_blocks
       IN /\ Len(hidden) = 2
          /\ hidden[1].id = Unwrap(run.calls[k].offered)
          /\ hidden[2].id = Unwrap(run.calls[k + 1].offered)
          /\ hidden[2].parent_id = Some(hidden[1].id)

\* Call k + 2 offers no block and finds at the tip a block of another miner
\* published since call k + 1
HonestBlockObserved(k) ==
    /\ k + 2 \in DOMAIN run.calls
    /\ run.calls[k + 2].offered = None
    /\ \E i \in DOMAIN tip(run.calls[k + 2].chain) :
          /\ tip(run.calls[k + 2].chain)[i] \in ByOthers(run.calls[k + 2].chain)
          /\ tip(run.calls[k + 2].chain)[i] \notin DOMAIN run.calls[k + 1].chain.blocks

\* Call k + 2 returns the PublishSet of the blocks hidden by calls k and k + 1
DrainsBoth(k) ==
    /\ run.calls[k + 2].action = PublishSet(run.calls[k + 1].after.hidden_blocks)
    /\ run.calls[k + 2].after.hidden_blocks = <<>>

\* C18 as stated: from an empty hidden queue, two consecutive rounds as
\* proposer with no other block published give Wait twice and two hidden
\* blocks; an Honest block then observed at the tip makes the next call
\* without a block return the PublishSet of exactly these two, queue empty.
C18_TwoRoundsHidden ==
    Watching("Selfish") =>
        \A k \in DOMAIN run.calls :
            TwoRoundsAlone(k) =>
                /\ BothHidden(k)
                /\ HonestBlockObserved(k) => DrainsBoth(k)

\* C18: the same, for a first call that sees no fork at the tip.  (With a
\* block of its own and a block of another miner both at the tip, the first
\* call publishes its block at once.)
C18_HiddenQueue ==
    Watching("Selfish") =>
        \A k \in DOMAIN run.calls :
            (TwoRoundsAlone(k) /\ ~ForkAtTip(run.calls[k].chain)) =>
                /\ BothHidden(k)
                /\ HonestBlockObserved(k) => DrainsBoth(k)

\* The scenario has happened: two blocks hidden in two rounds, an Honest
\* block observed, and the call that followed has returned both
C18_Witness ==
    /\ Watching("Selfish")
    /\ \E k \in DOMAIN run.calls :
          /\ TwoRoundsAlone(k)
          /\ ~ForkAtTip(run.calls[k].chain)
          /\ HonestBlockObserved(k)
          /\ run.calls[k + 2].action.type = "PublishSet"
          /\ Len(run.calls[k + 2].action.blocks) = 2

\* The state map_state was given in call k is [A(1), H(x)] or
\* [A(1), H(x), A(1)] with x above the tolerance i
OverTolerance(k) ==
    LET s == run.calls[k].found.state
    IN /\ Len(s) \in {2, 3}
       /\ s[1] = A(1)
       /\ s[2].entry = "H"
       /\ Len(s) = 3 => s[3] = A(1)
       /\ s[2].count > run.calls[k].found.i

\* Call k returns Wait, capitulates to honest_blocks[x-1], which is the
\* tie-broken tip, and clears the state; a next call without a mined block
\* finds the state [] and returns Wait
Capitulated(k) ==
    LET c == run.calls[k]
        x == c.found.state[2].count
    IN /\ c.action = Wait
       /\ x <= Len(c.found.honest_blocks)
       /\ c.after.capitulation = c.found.honest_blocks[x]
       /\ Some(c.after.capitulation) = choose(c.before.tie_breaker, c.chain, 0)
       /\ c.after.state = <<>>
       /\ c.after.seen = {}
       /\ c.after.our_blocks = <<>>
       /\ c.after.honest_blocks = <<>>
       /\ (k + 1 \in DOMAIN run.calls /\ run.calls[k + 1].offered = None) =>
              /\ run.calls[k + 1].found.state = <<>>
              /\ run.calls[k + 1].action = Wait

\* C19 as stated: whenever the state has the shape [A(1), H(x)] or
\* [A(1), H(x), A(1)] with x > i, the call returns Wait, capitulates to
\* honest_blocks[x-1] and clears state, seen, our_blocks and honest_blocks,
\* and a following call without a mined block finds [] and returns Wait.
C19_CapitulatesOverTolerance ==
    Watching("NDeficit") =>
        \A k \in DOMAIN run.calls : OverTolerance(k) => Capitulated(k)

\* C19: the same for every such state but [A(1), H(1), A(1)], which the match
\* of map_state gives to the arm that publishes all hidden blocks, whatever i
C19_Capitulation ==
    Watching("NDeficit") =>
        \A k \in DOMAIN run.calls :
            (OverTolerance(k) /\ run.calls[k].found.state # <<A(1), H(1), A(1)>>) =>
                Capitulated(k)

\* The state [A(1), H(x), A(1)] has been met with x >= 2 over the tolerance,
\* and a call without a mined block has followed the capitulation
C19_Witness ==
    /\ Watching("NDeficit")
    /\ \E k \in DOMAIN run.calls :
          /\ OverTolerance(k)
          /\ Len(run.calls[k].found.state) = 3
          /\ run.calls[k].found.state[2].count >= 2
          /\ k + 1 \in DOMAIN run.calls
          /\ run.calls[k + 1].offered = None

\* C20: in a run of Honest miners and one NDeficit(i) miner, whatever i, the
\* registration order and the proposers, every get_action call of the
\* NDeficit miner finds its state in one of the shapes map_state lists, and
\* the 'illegal n-deficit state' panic is never reached.
C20_StateAlwaysListed ==
    Watching("NDeficit") =>
        /\ \A k \in DOMAIN run.calls :
              /\ Listed(run.calls[k].found.state)
              /\ run.calls[k].action # Panic("illegal n-deficit state")
        /\ run.r.outcome # Some([panic |-> "illegal n-deficit state"])

\* The run has stopped in the panic of map_state's last arm
C20_Witness ==
    /\ Watching("NDeficit")
    /\ run.r.status = "panicked"
    /\ run.r.outcome = Some([panic |-> "illegal n-deficit state"])
    /\ ~Listed(run.calls[Len(run.calls)].found.state)

----------------------------------------------------------------------------
(* Properties of runs of Honest miners only, checked under SpecHonest *)

HonestRun == pc = "strat" /\ run.watch = 0

\* The rounds completed: every strategy has been polled in each
RoundsDone == run.r.status \in {"running", "done"} /\ run.r.idx > Len(run.r.sim.miners)

\* The rounds in which the miner with the id was the proposer
ProposedBy(id) ==
    {k \in DOMAIN run.calls : run.calls[k].before.id = id /\ IsSome(run.calls[k].offered)}

\* The call returned Publish of the offered block on the choice of the tie
\* breaker, for a draw the tie breaker can make
PublishedOnChoice(c) ==
    \E d \in DrawsMade(c.before) :
        /\ IsSome(choose(c.before.tie_breaker, c.chain, d))
        /\ Unwrap(choose(c.before.tie_breaker, c.chain, d)) \in
              Range(tip(c.chain))
        /\ c.action = PublishAct(Block(Unwrap(c.offered),
                                       choose(c.before.tie_breaker, c.chain, d),
                                       c.before.id))

\* The chain is one path of r + 1 blocks, one at every height 0..r
SinglePath(c, r) ==
    /\ num_blocks(c) = r + 1
    /\ max_height(c) = r
    /\ DOMAIN c.blocks = 0..r
    /\ \A h \in 0..r : Len(Unwrap(at_height(c, h))) = 1
    /\ \A b \in 1..r :
          /\ c.blocks[b].height = b
          /\ c.blocks[b].block.parent_id = Some(Unwrap(at_height(c, b - 1))[1])

\* C21: an Honest strategy returns Publish of the offered block, its parent
\* the choice of its tie breaker on the current chain, when it is the proposer
\* (and its tie breaker makes a choice), and Wait otherwise; in a run of Honest
\* miners only, after r rounds the chain is a single path of r + 1 blocks with
\* max_height r and one block at every height, every mined block is on the
\* final longest chain, and each miner has as many longest-chain blocks as
\* rounds in which it was the proposer.
C21_HonestSinglePath ==
    HonestRun =>
        /\ \A k \in DOMAIN run.calls :
              /\ run.calls[k].after = run.calls[k].before
              /\ IF IsSome(run.calls[k].offered)
                 THEN \/ PublishedOnChoice(run.calls[k])
                      \/ /\ run.calls[k].action.type = "Panic"
                         /\ \A d \in DrawsMade(run.calls[k].before) :
                               ~IsSome(choose(run.calls[k].before.tie_breaker,
                                              run.calls[k].chain, d))
                 ELSE run.calls[k].action = Wait
        /\ RoundsDone => SinglePath(run.r.chain, run.r.round.round)
        /\ run.r.status = "done" =>
              LET out == Unwrap(run.r.outcome).output
              IN /\ out.longest_chain = 0..run.r.sim.rounds
                 /\ \A k \in DOMAIN run.r.sim.miners :
                       Cardinality({b \in out.longest_chain :
                                      run.r.chain.blocks[b].block.miner_id = k})
                         = Cardinality(ProposedBy(k))

\* A run of three Honest miners has returned, each having been the proposer
C21_Witness ==
    /\ HonestRun
    /\ run.r.status = "done"
    /\ run.r.round.round = StratRounds
    /\ Len(run.r.sim.miners) = 3
    /\ \A k \in DOMAIN run.r.sim.miners : ProposedBy(k) # {}
    /\ SinglePath(run.r.chain, StratRounds)

----------------------------------------------------------------------------
(* Properties of Selfish, checked under SpecStrat *)

\* The call was entered with the private chain behind the public one
Stale(c) == c.before.private_height < max_height(c.chain)

\* The hidden queue after the check of lines 47-49
QueueChecked(c) == IF Stale(c) THEN <<>> ELSE c.before.hidden_blocks

\* The ids of the blocks of a sequence
IdsOf(blocks) == {blocks[j].id : j \in DOMAIN blocks}

\* C23: a call entered with private_height < chain.max_height() empties the
\* hidden queue before it decides, so no block held at that moment is ever
\* published afterwards; and after every call a hidden queue that is not
\* empty implies private_height >= max_height of the chain passed.
C23_StaleLead ==
    Watching("Selfish") =>
        \A k \in DOMAIN run.calls :
            /\ Stale(run.calls[k]) =>
                  /\ IdsOf(run.calls[k].after.hidden_blocks)
                        \subseteq Range(run.calls[k].offered)
                  /\ \A j \in k..Len(run.calls) :
                        IdsOf(run.calls[j].action.blocks)
                          \cap IdsOf(run.calls[k].before.hidden_blocks) = {}
                  /\ DOMAIN run.r.chain.blocks
                        \cap IdsOf(run.calls[k].before.hidden_blocks) = {}
            /\ run.calls[k].after.hidden_blocks # <<>> =>
                  run.calls[k].after.private_height >= max_height(run.calls[k].chain)

\* A call was entered behind the public chain with a block hidden, and a
\* later call has been made
C23_Witness ==
    /\ Watching("Selfish")
    /\ \E k \in DOMAIN run.calls :
          /\ Stale(run.calls[k])
          /\ run.calls[k].before.hidden_blocks # <<>>
          /\ k < Len(run.calls)

\* C24: as the proposer, Selfish returns Publish of the new block exactly when
\* its hidden queue is empty after the stale-lead check and the tip holds a
\* block of its own and a block of another miner, the parent being its own
\* earliest tip block; in every other proposer call it appends the new block
\* to the hidden queue and returns Wait.
C24_ProposerRule ==
    Watching("Selfish") =>
        \A k \in DOMAIN run.calls :
            IsSome(run.calls[k].offered) =>
                LET c == run.calls[k]
                    q == QueueChecked(c)
                IN IF q = <<>> /\ ForkAtTip(c.chain)
                   THEN /\ c.action =
                             PublishAct(Block(Unwrap(c.offered),
                                              FindBy(c.chain, tip(c.chain), WatchedId),
                                              WatchedId))
                        /\ c.after.hidden_blocks = <<>>
                   ELSE /\ c.action = Wait
                        /\ Len(c.after.hidden_blocks) = Len(q) + 1
                        /\ SubSeq(c.after.hidden_blocks, 1, Len(q)) = q
                        /\ c.after.hidden_blocks[Len(q) + 1].id = Unwrap(c.offered)
                        /\ c.after.hidden_blocks[Len(q) + 1].miner_id = WatchedId

\* A proposer call has published its block at once, and another has hidden
\* its block behind one already hidden
C24_Witness ==
    /\ Watching("Selfish")
    /\ \E k \in DOMAIN run.calls :
          /\ IsSome(run.calls[k].offered)
          /\ run.calls[k].action.type = "Publish"
    /\ \E k \in DOMAIN run.calls :
          /\ IsSome(run.calls[k].offered)
          /\ Len(run.calls[k].after.hidden_blocks) = 2

\* C25: when it is not the proposer, Selfish returns, after the stale-lead
\* check, Wait on an empty hidden queue, the PublishSet of both blocks of a
\* queue of two (front first, queue left empty), and otherwise the Publish of
\* the front block, the other blocks staying hidden in the same order.
C25_NonProposerRule ==
    Watching("Selfish") =>
        \A k \in DOMAIN run.calls :
            run.calls[k].offered = None =>
                LET c == run.calls[k]
                    q == QueueChecked(c)
                IN IF Len(q) = 0
                   THEN c.action = Wait /\ c.after.hidden_blocks = <<>>
                   ELSE IF Len(q) = 2
                   THEN c.action = PublishSet(q) /\ c.after.hidden_blocks = <<>>
                   ELSE c.action = PublishAct(q[1]) /\ c.after.hidden_blocks = Tail(q)

\* Calls without a block have found one, two, and three hidden blocks
C25_Witness ==
    /\ Watching("Selfish")
    /\ \A n \in 1..3 :
          \E k \in DOMAIN run.calls :
              /\ run.calls[k].offered = None
              /\ Len(QueueChecked(run.calls[k])) = n

\* C26: whenever Selfish returns the PublishSet of its two hidden blocks, the
\* chain passed to the call has max_height = private_height - 1, for every
\* registration order and every set of co-registered strategies.
C26_ReleasedOneBehind ==
    Watching("Selfish") =>
        \A k \in DOMAIN run.calls :
            run.calls[k].action.type = "PublishSet" =>
                max_height(run.calls[k].chain) = run.calls[k].before.private_height - 1

\* Selfish, registered before the only Honest miner, has released both hidden
\* blocks with the public chain two behind
C26_Witness ==
    /\ Watching("Selfish")
    /\ Len(run.r.sim.miners) = 2
    /\ run.watch = 1
    /\ \E k \in DOMAIN run.calls :
          /\ run.calls[k].action.type = "PublishSet"
          /\ max_height(run.calls[k].chain) = run.calls[k].before.private_height - 2

----------------------------------------------------------------------------
(* Properties of NDeficit's map_state, checked under SpecStrat *)

\* The blocks form a path of the ids given, oldest first, the first on the
\* parent given and each next one on the one before, all by the watched miner
IsPathFrom(blocks, ids, parent) ==
    /\ Len(blocks) = Len(ids)
    /\ \A j \in DOMAIN blocks :
          /\ blocks[j].id = ids[j]
          /\ blocks[j].miner_id = WatchedId
          /\ blocks[j].parent_id = Some(IF j = 1 THEN parent ELSE ids[j - 1])

\* The call published the path of ids on the parent, made its last block the
\* capitulation and cleared the tracking state
PublishedPath(c, ids, parent) ==
    /\ c.action.type = "PublishSet"
    /\ ids # <<>>
    /\ IsPathFrom(c.action.blocks, ids, parent)
    /\ c.after.capitulation = ids[Len(ids)]
    /\ c.after.state = <<>>
    /\ c.after.seen = {}
    /\ c.after.our_blocks = <<>>
    /\ c.after.honest_blocks = <<>>

\* The state map_state was given starts with A(k), k >= 2
LeadState(c) ==
    /\ c.action.type # "Panic"
    /\ c.found.state # <<>>
    /\ c.found.state[1].entry = "A"
    /\ c.found.state[1].count >= 2

\* C27: when the state starts with A(k), k >= 2, get_action publishes if and
\* only if our_blocks.len() = honest_blocks.len() + 1; it then returns the
\* PublishSet of all hidden blocks, oldest first, chained from capitulation,
\* sets capitulation to the last of them and clears state, seen, our_blocks
\* and honest_blocks; otherwise it returns Wait and changes nothing.
C27_LeadRule ==
    Watching("NDeficit") =>
        \A k \in DOMAIN run.calls :
            LeadState(run.calls[k]) =>
                LET c == run.calls[k]
                IN IF Len(c.found.our_blocks) = Len(c.found.honest_blocks) + 1
                   THEN PublishedPath(c, c.found.our_blocks, c.found.capitulation)
                   ELSE c.action = Wait /\ c.after = c.found

\* A lead of two or more has been published, after a call that waited on it
C27_Witness ==
    /\ Watching("NDeficit")
    /\ \E k \in DOMAIN run.calls :
          /\ LeadState(run.calls[k])
          /\ run.calls[k].action.type = "PublishSet"
          /\ Len(run.calls[k].action.blocks) >= 3
    /\ \E k \in DOMAIN run.calls :
          /\ LeadState(run.calls[k])
          /\ run.calls[k].action = Wait

\* C28: in state [A(1), H(1), A(1)] get_action returns the PublishSet of both
\* hidden blocks chained from capitulation, and once the driver has applied
\* it the attacker's second block is at the height of capitulation + 2, one
\* above the competing honest block.
C28_SymmetricRace ==
    Watching("NDeficit") =>
        \A k \in DOMAIN run.calls :
            (run.calls[k].found.state = <<A(1), H(1), A(1)>>
               /\ run.calls[k].action.type # "Panic") =>
                LET c == run.calls[k]
                    now == run.r.chain
                IN /\ Len(c.found.our_blocks) = 2
                   /\ Len(c.found.honest_blocks) = 1
                   /\ PublishedPath(c, c.found.our_blocks, c.found.capitulation)
                   /\ Contains(now, c.found.our_blocks[2])
                   /\ now.blocks[c.found.our_blocks[2]].height
                        = now.blocks[c.found.capitulation].height + 2
                   /\ now.blocks[c.found.honest_blocks[1]].height
                        = now.blocks[c.found.capitulation].height + 1
                   /\ run.r.status # "failed"

\* The race has been met and its two blocks are in the chain
C28_Witness ==
    /\ Watching("NDeficit")
    /\ \E k \in DOMAIN run.calls :
          /\ run.calls[k].found.state = <<A(1), H(1), A(1)>>
          /\ run.calls[k].action.type = "PublishSet"
          /\ Contains(run.r.chain, run.calls[k].found.our_blocks[2])

\* The state map_state was given starts [A(1), H(x), A(k), ..] with x <= i and
\* k >= 2
PartialState(c) ==
    /\ c.action.type # "Panic"
    /\ Len(c.found.state) >= 3
    /\ c.found.state[1] = A(1)
    /\ c.found.state[2].entry = "H"
    /\ c.found.state[2].count <= c.found.i
    /\ c.found.state[3].entry = "A"
    /\ c.found.state[3].count >= 2

\* The second case of the rule applies: ours - 1 = honest - x + 1, and not
\* ours = honest + 1
PartialCase(c) ==
    /\ PartialState(c)
    /\ Len(c.found.our_blocks) # Len(c.found.honest_blocks) + 1
    /\ Len(c.found.our_blocks) - 1
         = Len(c.found.honest_blocks) - c.found.state[2].count + 1

\* C29: in a state that starts [A(1), H(x), A(k), ..] with x <= i and k >= 2:
\* if ours = honest + 1 the whole hidden path is published from capitulation;
\* else if ours - 1 = honest - x + 1 the front hidden block is dropped and the
\* others are published as a path on honest_blocks[x-1], capitulation becomes
\* the last published block and the tracking state is cleared; otherwise the
\* call returns Wait.
C29_PartialPath ==
    Watching("NDeficit") =>
        \A k \in DOMAIN run.calls :
            PartialState(run.calls[k]) =>
                LET c == run.calls[k]
                    x == c.found.state[2].count
                IN IF Len(c.found.our_blocks) = Len(c.found.honest_blocks) + 1
                   THEN PublishedPath(c, c.found.our_blocks, c.found.capitulation)
                   ELSE IF PartialCase(c)
                   THEN PublishedPath(c, Tail(c.found.our_blocks),
                                      c.found.honest_blocks[x])
                   ELSE c.action = Wait

\* The partial path has been published, and so has a whole path
C29_Witness ==
    /\ Watching("NDeficit")
    /\ \E k \in DOMAIN run.calls :
          /\ PartialCase(run.calls[k])
          /\ run.calls[k].action.type = "PublishSet"
          /\ Len(run.calls[k].action.blocks) = Len(run.calls[k].found.our_blocks) - 1

\* The state map_state was given is [A(1), H(x), A(1), H(1)] with x <= i
ManualState(c) ==
    /\ c.action.type # "Panic"
    /\ Len(c.found.state) = 4
    /\ c.found.state[1] = A(1)
    /\ c.found.state[2].entry = "H"
    /\ c.found.state[2].count <= c.found.i
    /\ c.found.state[3] = A(1)
    /\ c.found.state[4] = H(1)

\* C30: in state [A(1), H(x), A(1), H(1)] with x <= i, get_action returns Wait
\* and leaves the state [A(1), H(1)], capitulation the former
\* honest_blocks[x-1], our_blocks with the attacker's second block only,
\* honest_blocks with the last honest block only, and seen with exactly
\* these two ids.
C30_ManualCapitulation ==
    Watching("NDeficit") =>
        \A k \in DOMAIN run.calls :
            ManualState(run.calls[k]) =>
                LET c == run.calls[k]
                    x == c.found.state[2].count
                IN /\ c.action = Wait
                   /\ Len(c.found.our_blocks) = 2
                   /\ Len(c.found.honest_blocks) = x + 1
                   /\ c.after.state = <<A(1), H(1)>>
                   /\ c.after.capitulation = c.found.honest_blocks[x]
                   /\ c.after.our_blocks = <<c.found.our_blocks[2]>>
                   /\ c.after.honest_blocks = <<c.found.honest_blocks[x + 1]>>
                   /\ c.after.seen = {c.found.our_blocks[2], c.found.honest_blocks[x + 1]}

\* The state has been met with x >= 2, and a call has followed
C30_Witness ==
    /\ Watching("NDeficit")
    /\ \E k \in DOMAIN run.calls :
          /\ ManualState(run.calls[k])
          /\ run.calls[k].found.state[2].count >= 2
          /\ k < Len(run.calls)

----------------------------------------------------------------------------
(* Properties of the per-round update of NDeficit and NDeficitEager,       *)
(* checked under SpecMix                                                   *)

\* The call ran update_state on a mined block
UpdatedWithBlock(c) ==
    /\ c.before.kind \in {"NDeficit", "NDeficitEager"}
    /\ IsSome(c.offered)
    /\ ~(c.before.kind = "NDeficitEager" /\ ForkCase(c.before, c.chain, c.offered))
    /\ update_state(c.before, c.chain, c.offered, 0).panic = ""

\* Steps (1) and (2) of the update of the call, as a call without a mined
\* block runs them
WithoutBlock(c) == update_state(c.before, c.chain, None, 0).miner

\* Step (1) of the update of the call reset the state: the private lead was
\* lost
LeadLost(c) ==
    /\ c.before.our_blocks # <<>>
    /\ WithoutBlock(c).our_blocks = <<>>
    /\ WithoutBlock(c).capitulation # c.before.capitulation

\* C31: in every NDeficit get_action call given a mined block b, the update
\* appends b to the back of our_blocks and extends the top A run by one (or
\* pushes A(1)) before the decision is taken, also in the calls in which
\* step (1) of the same update reset the state.
C31_MinedBlockTracked ==
    \A k \in DOMAIN run.calls :
        UpdatedWithBlock(run.calls[k]) =>
            /\ run.calls[k].found.our_blocks =
                   Append(WithoutBlock(run.calls[k]).our_blocks,
                          Unwrap(run.calls[k].offered))
            /\ run.calls[k].found.state = Bump(WithoutBlock(run.calls[k]).state, "A", 1)

\* NDeficit has mined a block in a call whose update found the private lead
\* lost, and the decision was taken on an empty our_blocks: the block is in
\* no hidden queue and not in the chain
C31_Witness ==
    \E k \in DOMAIN run.calls :
        /\ UpdatedWithBlock(run.calls[k])
        /\ run.calls[k].before.kind = "NDeficit"
        /\ LeadLost(run.calls[k])
        /\ run.calls[k].found.our_blocks = <<>>
        /\ run.calls[k].found.state = <<>>
        /\ run.calls[k].action.type = "Wait"
        /\ ~Contains(run.r.chain, Unwrap(run.calls[k].offered))

----------------------------------------------------------------------------
(* Properties of NDeficitEager, checked under SpecMix *)

\* Every other strategy of the run is Honest
AmongHonest ==
    \A j \in DOMAIN run.r.sim.miners :
        j = run.watch \/ run.r.sim.miners[j].kind = "Honest"

\* The call of NDeficitEager went through update_state
EagerUpdated(c) ==
    /\ c.before.kind = "NDeficitEager"
    /\ ~ForkCase(c.before, c.chain, c.offered)
    /\ update_state(c.before, c.chain, c.offered, 0).panic = ""

\* The state map_state of NDeficitEager was given starts with A(k), k >= 2
EagerLeadState(c) ==
    /\ EagerUpdated(c)
    /\ c.found.state # <<>>
    /\ c.found.state[1].entry = "A"
    /\ c.found.state[1].count >= 2

\* C32: in every run with Honest miners, whenever the state of NDeficitEager
\* starts with A(k), k >= 2, either our_blocks.len() = honest_blocks.len() + 1
\* or honest_blocks is non-empty; the call publishes the whole hidden path and
\* the branch 'we should maintain the lead' is never executed.
C32_LeadAlwaysPublishes ==
    AmongHonest =>
        \A k \in DOMAIN run.calls :
            EagerLeadState(run.calls[k]) =>
                /\ \/ Len(run.calls[k].found.our_blocks) =
                          Len(run.calls[k].found.honest_blocks) + 1
                   \/ run.calls[k].found.honest_blocks # <<>>
                /\ run.calls[k].action.type = "PublishSet"
                /\ [j \in DOMAIN run.calls[k].action.blocks |->
                        run.calls[k].action.blocks[j].id] = run.calls[k].found.our_blocks

\* NDeficitEager, beside one Honest miner, has mined two blocks in a row: in
\* state [A(2)] with no honest block the call executed the branch marked
\* unreachable
C32_Witness ==
    /\ AmongHonest
    /\ Len(run.r.sim.miners) = 2
    /\ run.r.status = "panicked"
    /\ \E k \in DOMAIN run.calls :
          /\ EagerLeadState(run.calls[k])
          /\ run.calls[k].found.state = <<A(2)>>
          /\ Len(run.calls[k].found.our_blocks) = 2
          /\ run.calls[k].found.honest_blocks = <<>>
          /\ run.calls[k].action = Panic("we should maintain the lead")

\* The tip of the chain of the call holds a block of the strategy called and
\* a block of another miner
ForkSeen(c) ==
    /\ \E b \in Range(tip(c.chain)) : c.chain.blocks[b].block.miner_id = c.before.id
    /\ \E b \in Range(tip(c.chain)) : c.chain.blocks[b].block.miner_id # c.before.id

\* The earliest block at the tip of the chain of the call that is by the
\* strategy called
OwnEarliestAtTip(c) ==
    LET ids == tip(c.chain)
        own == {j \in DOMAIN ids : c.chain.blocks[ids[j]].block.miner_id = c.before.id}
    IN ids[CHOOSE j \in own : \A l \in own : j <= l]

\* The call is one of the fork case: a block mined while no block is hidden
\* and a fork is seen at the tip
InForkCase(c) ==
    /\ c.before.kind = "NDeficitEager"
    /\ c.before.our_blocks = <<>>
    /\ IsSome(c.offered)
    /\ ForkSeen(c)

\* C33: when NDeficitEager mines a block while it holds no hidden blocks and
\* the tip holds a block of its own and a block of another miner, get_action
\* returns Publish of the new block on its own earliest tip block, sets
\* capitulation to the new block and clears state, seen, our_blocks and
\* honest_blocks; every other call is the per-round update followed by the
\* transition table.
C33_ForkCase ==
    \A k \in DOMAIN run.calls :
        /\ InForkCase(run.calls[k]) =>
              /\ run.calls[k].action =
                     PublishAct(Block(Unwrap(run.calls[k].offered),
                                      Some(OwnEarliestAtTip(run.calls[k])),
                                      run.calls[k].before.id))
              /\ run.calls[k].after =
                     [run.calls[k].before EXCEPT
                          !.capitulation = Unwrap(run.calls[k].offered),
                          !.state = <<>>, !.seen = {}, !.our_blocks = <<>>,
                          !.honest_blocks = <<>>]
        /\ (run.calls[k].before.kind = "NDeficitEager" /\ ~InForkCase(run.calls[k])) =>
              \E u \in {update_state(run.calls[k].before, run.calls[k].chain,
                                     run.calls[k].offered, 0)} :
                 IF u.panic # ""
                 THEN run.calls[k].action = Panic(u.panic)
                 ELSE /\ run.calls[k].action = Eager_map_state(u.miner).action
                      /\ run.calls[k].after = Eager_map_state(u.miner).miner

\* NDeficitEager has taken the fork case on a chain of height two or more
\* where the tracking state it entered the call with was not empty, and has
\* gone through the update and the table in another call that mined a block
C33_Witness ==
    /\ \E k \in DOMAIN run.calls :
          /\ InForkCase(run.calls[k])
          /\ max_height(run.calls[k].chain) >= 2
          /\ run.calls[k].action.type = "Publish"
          /\ run.calls[k].before.capitulation # GENESIS_ID
    /\ \E k \in DOMAIN run.calls :
          /\ run.calls[k].before.kind = "NDeficitEager"
          /\ ~InForkCase(run.calls[k])
          /\ IsSome(run.calls[k].offered)
          /\ run.calls[k].action.type = "PublishSet"

----------------------------------------------------------------------------
(* Properties of runs of mixes of the built-in strategies, checked under   *)
(* SpecMix                                                                 *)

\* Block j of the blocks returned passes the four checks of publish on
\* chain c once the blocks before it are in: its id is new, it names a
\* parent, the parent is there and the parent's id is smaller
PassesChecks(c, blocks, j) ==
    /\ ~Contains(c, blocks[j].id)
    /\ \A l \in 1..(j - 1) : blocks[l].id # blocks[j].id
    /\ IsSome(blocks[j].parent_id)
    /\ \/ Contains(c, Unwrap(blocks[j].parent_id))
       \/ \E l \in 1..(j - 1) : blocks[l].id = Unwrap(blocks[j].parent_id)
    /\ Unwrap(blocks[j].parent_id) < blocks[j].id

\* Some height of the chain holds two blocks or more
Forked(c) == \E h \in DOMAIN c.blocks_by_height : Len(c.blocks_by_height[h]) >= 2

\* C35: in any run of built-in strategies, in any mix and registration
\* order, every block a strategy returns passes the four checks of publish
\* when the driver applies it, and the run never fails with a
\* BlockPublishingError.
C35_NoPublishError ==
    /\ run.r.status # "failed"
    /\ \A k \in DOMAIN run.calls :
          run.calls[k].action.type # "Panic" =>
              \A j \in DOMAIN run.calls[k].action.blocks :
                  PassesChecks(run.calls[k].chain, run.calls[k].action.blocks, j)

\* A run of three strategies, none of them Honest, has returned: the chain is
\* forked, a strategy has published a set of blocks and one a single block
C35_Witness ==
    /\ run.r.status = "done"
    /\ Len(run.r.sim.miners) = 3
    /\ \A j \in DOMAIN run.r.sim.miners : run.r.sim.miners[j].kind # "Honest"
    /\ Forked(run.r.chain)
    /\ num_blocks(run.r.chain) >= 5
    /\ \E k \in DOMAIN run.calls : run.calls[k].action.type = "PublishSet"
    /\ \E k \in DOMAIN run.calls : run.calls[k].action.type = "Publish"

\* The sum of the counts of the entries of kind e in the state
CountOf(state, e) ==
    Sum([j \in DOMAIN state |-> IF state[j].entry = e THEN state[j].count ELSE 0])

\* The bookkeeping of NDeficit m agrees with itself and with the chain c and
\* the blocks just handed to the driver
Bookkeeping(m, c, published) ==
    /\ Len(m.our_blocks) = CountOf(m.state, "A")
    /\ Len(m.honest_blocks) = CountOf(m.state, "H")
    /\ m.state # <<>> => m.state[1].entry = "A"
    /\ \A j \in 1..(Len(m.state) - 1) : m.state[j].entry # m.state[j + 1].entry
    /\ \A j \in DOMAIN m.our_blocks :
          ~Contains(c, m.our_blocks[j]) /\ m.our_blocks[j] \notin IdsOf(published)
    /\ m.our_blocks = <<>> => (m.state = <<>> /\ m.seen = {} /\ m.honest_blocks = <<>>)

\* C36: after every get_action call of NDeficit, our_blocks.len() is the sum
\* of the A counts of state and honest_blocks.len() the sum of the H counts,
\* a non-empty state starts with an A entry and alternates A and H, no id of
\* our_blocks is in the chain, and an empty our_blocks comes with empty
\* state, seen and honest_blocks; the debug assertions of update_state and
\* map_state hold in every call.
C36_Bookkeeping ==
    \A k \in DOMAIN run.calls :
        run.calls[k].before.kind = "NDeficit" =>
            /\ update_state(run.calls[k].before, run.calls[k].chain,
                            run.calls[k].offered, 0).panic # "debug_assert"
            /\ run.calls[k].action # Panic("debug_assert")
            /\ Bookkeeping(run.calls[k].found, run.calls[k].chain, <<>>)
            /\ run.calls[k].action.type # "Panic" =>
                   Bookkeeping(run.calls[k].after, run.calls[k].chain,
                               run.calls[k].action.blocks)

\* NDeficit has returned from a call with two hidden blocks around a run of
\* two honest blocks, and from a call of the arm that rewrites the state by
\* hand
C36_Witness ==
    /\ \E k \in DOMAIN run.calls :
          /\ run.calls[k].before.kind = "NDeficit"
          /\ run.calls[k].after.state = <<A(1), H(2), A(1)>>
          /\ Len(run.calls[k].after.our_blocks) = 2
    /\ \E k \in DOMAIN run.calls :
          /\ run.calls[k].before.kind = "NDeficit"
          /\ Len(run.calls[k].found.state) = 4
          /\ run.calls[k].after.state = <<A(1), H(1)>>

----------------------------------------------------------------------------
(* The races of NDeficit against one Honest miner, checked under SpecStrat *)

\* The chain of the call once the driver has applied the blocks returned
Applied(c) ==
    ApplyBlocks(c.chain, <<>>, c.action.blocks, 1, c.before.id).chain

\* The run is of one Honest miner and one NDeficit miner
HonestAgainstNDeficit ==
    /\ Len(run.r.sim.miners) = 2
    /\ {run.r.sim.miners[j].kind : j \in DOMAIN run.r.sim.miners} = {"Honest", "NDeficit"}

\* C37: in a run of one Honest miner and one NDeficit(i) miner, once the
\* driver has applied a PublishSet returned by NDeficit, the last block of
\* the set is the only block at max_height.
C37_PublishSetWins ==
    HonestAgainstNDeficit =>
        \A k \in DOMAIN run.calls :
            (run.calls[k].before.kind = "NDeficit"
                 /\ run.calls[k].action.type = "PublishSet") =>
                tip(Applied(run.calls[k])) =
                    <<run.calls[k].action.blocks[Len(run.calls[k].action.blocks)].id>>

\* NDeficit has won a race against the Honest miner with all of its hidden
\* blocks but the first, which it gave up
C37_Witness ==
    /\ HonestAgainstNDeficit
    /\ \E k \in DOMAIN run.calls :
          /\ run.calls[k].action.type = "PublishSet"
          /\ Len(run.calls[k].action.blocks) = Len(run.calls[k].found.our_blocks) - 1
          /\ max_height(Applied(run.calls[k])) > max_height(run.calls[k].chain)

----------------------------------------------------------------------------
(* The hidden queue of Selfish, checked under SpecStrat *)

\* The hidden queue of Selfish m is a chain ready to publish on chain c, the
\* chain once the blocks the call returned are in, and private_height is the
\* height its last block will have
HiddenChain(m, c) ==
    m.hidden_blocks # <<>> =>
        /\ IsSome(m.hidden_blocks[1].parent_id)
        /\ Contains(c, Unwrap(m.hidden_blocks[1].parent_id))
        /\ \A j \in 2..Len(m.hidden_blocks) :
              m.hidden_blocks[j].parent_id = Some(m.hidden_blocks[j - 1].id)
        /\ \A j \in DOMAIN m.hidden_blocks : ~Contains(c, m.hidden_blocks[j].id)
        /\ m.private_height =
               c.blocks[Unwrap(m.hidden_blocks[1].parent_id)].height
                   + Len(m.hidden_blocks)

\* C38: after every get_action call of Selfish, the parent of the front
\* hidden block is in the public chain or is the block the call returned,
\* the parent of every other hidden block is the hidden block before it, no
\* hidden block is in the public chain, and private_height is the height of
\* the front block's parent plus the number of hidden blocks.
C38_HiddenChain ==
    \A k \in DOMAIN run.calls :
        (run.calls[k].before.kind = "Selfish" /\ run.calls[k].action.type # "Panic") =>
            HiddenChain(run.calls[k].after, Applied(run.calls[k]))

\* Selfish has returned from a call that published the front of three hidden
\* blocks or more, leaving a queue whose front now stands on the block just
\* returned, and from a call that put a block behind a hidden one
C38_Witness ==
    /\ \E k \in DOMAIN run.calls :
          /\ run.calls[k].before.kind = "Selfish"
          /\ run.calls[k].action.type = "Publish"
          /\ Len(run.calls[k].after.hidden_blocks) >= 2
          /\ run.calls[k].after.hidden_blocks[1].parent_id =
                 Some(run.calls[k].action.blocks[1].id)
    /\ \E k \in DOMAIN run.calls :
          /\ run.calls[k].before.kind = "Selfish"
          /\ IsSome(run.calls[k].offered)
          /\ Len(run.calls[k].after.hidden_blocks) >= 2

----------------------------------------------------------------------------
(* Revenue shares (src/src/results.rs), checked under SpecHonest *)

\* The numerator of revenue_of: the ids of the miner's blocks_by_miner entry
\* that are in longest_chain, none if the miner has no entry
blocks_in_longest_chain(miner_id, data) ==
    IF miner_id \in DOMAIN data.blocks_by_miner
    THEN Cardinality({j \in DOMAIN data.blocks_by_miner[miner_id] :
                         data.blocks_by_miner[miner_id][j] \in data.longest_chain})
    ELSE 0

\* revenue_of: the share blocks / longest_chain.len(), as a fraction
revenue_of(miner_id, data) ==
    [blocks |-> blocks_in_longest_chain(miner_id, data),
     of |-> Cardinality(data.longest_chain)]

\* The numerators of the shares of the miners 1..n, added up
RECURSIVE SharesAdded(_, _)
SharesAdded(n, data) ==
    IF n = 0 THEN 0 ELSE revenue_of(n, data).blocks + SharesAdded(n - 1, data)

\* The miners that have id b in their blocks_by_miner entry
RecordedFor(b, data) ==
    {m \in DOMAIN data.blocks_by_miner : b \in Range(data.blocks_by_miner[m])}

\* The outcome of the run that has returned
Returned == Unwrap(run.r.outcome).output

\* C39: in every run outcome each id in longest_chain is recorded in
\* blocks_by_miner for exactly one miner, so the per-miner counts of
\* longest-chain blocks add up to the size of longest_chain and the revenue
\* shares of all miners sum to 1.
C39_SharesSumToOne ==
    run.r.status = "done" =>
        /\ \A b \in Returned.longest_chain : Cardinality(RecordedFor(b, Returned)) = 1
        /\ SharesAdded(Len(run.r.sim.miners), Returned) = Cardinality(Returned.longest_chain)
        /\ \A m \in DOMAIN run.r.sim.miners :
              revenue_of(m, Returned).of = SharesAdded(Len(run.r.sim.miners), Returned)

\* A run of several Honest miners has returned with a block of every round
\* on the longest chain: the genesis block is in longest_chain and recorded
\* for no miner, and the shares add up to one block less than their
\* denominator
C39_Witness ==
    /\ run.r.status = "done"
    /\ Len(run.r.sim.miners) >= 2
    /\ Cardinality(Returned.longest_chain) = run.r.sim.rounds + 1
    /\ GENESIS_ID \in Returned.longest_chain
    /\ RecordedFor(GENESIS_ID, Returned) = {}
    /\ SharesAdded(Len(run.r.sim.miners), Returned) =
           Cardinality(Returned.longest_chain) - 1

----------------------------------------------------------------------------
(* The end of withholding, checked under SpecTail *)

\* The blocks strategy m holds back
HiddenQueue(m) == IF m.kind = "Selfish" THEN m.hidden_blocks ELSE m.our_blocks

\* From this round on the Honest miner is the proposer of every round
HonestFromNowOn == run.tail_from > 0

\* The withholding miner holds no block back
NothingHidden == HiddenQueue(run.r.sim.miners[run.watch]) = <<>>

\* C40: in a run of an Honest miner and a Selfish or NDeficit(i) miner, if
\* from some round on the Honest miner is the proposer of every round, then
\* after finitely many rounds the hidden queue of the withholding miner is
\* empty.
C40_HiddenDrained == HonestFromNowOn ~> NothingHidden

\* NDeficit, two rounds or more after its last own block, has discarded its
\* hidden blocks by capitulating, and nothing is hidden any more
C40_Witness ==
    /\ HonestFromNowOn
    /\ NothingHidden
    /\ \E k \in DOMAIN run.calls :
          /\ run.calls[k].before.kind = "NDeficit"
          /\ run.calls[k].round >= run.tail_from + 1
          /\ HiddenQueue(run.calls[k].before) # <<>>
          /\ HiddenQueue(run.calls[k].after) = <<>>
          /\ run.calls[k].action.type = "Wait"

----------------------------------------------------------------------------
(* The frame of a rejected publish, checked under SpecChain *)

\* Chain d holds what chain c holds: the blocks, their heights and children,
\* the per-height lists, max_height, tip() and num_blocks()
SameChain(c, d) ==
    /\ DOMAIN d.blocks = DOMAIN c.blocks
    /\ \A b \in DOMAIN c.blocks :
          /\ d.blocks[b].block = c.blocks[b].block
          /\ d.blocks[b].height = c.blocks[b].height
          /\ d.blocks[b].children = c.blocks[b].children
    /\ d.blocks_by_height = c.blocks_by_height
    /\ max_height(d) = max_height(c)
    /\ tip(d) = tip(c)
    /\ num_blocks(d) = num_blocks(c)

\* C34: after publish returns any error, the blocks, every block's height and
\* children, the per-height id lists, max_height, tip() and num_blocks() are
\* what they were before the call.
C34_RejectedPublishFrame ==
    [][(last'.called /\ last'.res # "Ok") => SameChain(chain, chain')]_vars

\* A block whose id is not greater than the id of its parent, which is in a
\* chain of three blocks or more, has been rejected
C34_Witness ==
    /\ last.called
    /\ last.res = "InvalidParent"
    /\ Unwrap(last.block.parent_id) # GENESIS_ID
    /\ num_blocks(chain) >= 3

====
